---- MODULE Spec2Model ----
(***************************************************************************)
(* A model of the RPC core of cloud_web: the circuit breaker               *)
(* (package breaker), the goroutine worker pool (package pool) and the     *)
(* TCP transport (package rpc): its frame codec, the server's connection   *)
(* handlers and the client proxy.                                          *)
(*                                                                         *)
(* Each subsystem has its own specification over the shared variables:     *)
(*   SpecBreaker  - concurrent CircuitBreaker.Execute calls and the clock  *)
(*   SpecBreakerRace - the same with the unlocked increment of             *)
(*                  Counts.Requests in two steps                           *)
(*   SpecPool     - Submit / worker goroutines / expiry sweep / Release    *)
(*   SpecPoolReused - the pool from the state a swept worker leaves        *)
(*   SpecPoolLive - SpecPool with weak fairness of the goroutines' steps   *)
(*   SpecCodec    - client Invoke and server Send frames through           *)
(*                  decodeFrame                                            *)
(*   SpecServer   - one accepted connection of MsTcpServer fed with raw    *)
(*                  bytes: readHandle, dispatch, writeHandle               *)
(*   SpecServerLive - that connection, fed with response frames as well,   *)
(*                  with weak fairness of the goroutines' steps            *)
(*   SpecRpc      - MsTcpClientProxy.Call against that server              *)
(*   SpecRpcLive  - SpecRpc with weak fairness of its steps                *)
(***************************************************************************)
EXTENDS Integers, Sequences, FiniteSets, Bags, TLC

VARIABLES
    \* ---- breaker (src/unnamed/part_008) ----
    cb,           \* CircuitBreaker fields: state, generation, counts, expiry
    maxRequests,  \* cb.maxRequests
    interval,     \* cb.interval (0 = no rolling window)
    timeout,      \* cb.timeout
    hasFallback,  \* cb.fallback # nil
    now,          \* the wall clock read by time.Now()
    executing,    \* the Execute calls past beforeRequest, as a bag of
                  \* [pc, before, success]: the position inside Execute, the
                  \* generation beforeRequest returned, cb.isSuccessful(err)
    result,       \* what the latest Execute to return has returned
    calls,        \* number of Execute calls started so far
    \* ---- pool (src/web/pool/pool.go, Worker in src/unnamed/part_002) ----
    cap,          \* p.cap
    running,      \* p.running
    workers,      \* p.workers: the idle list, oldest first
    expire,       \* p.expire, in clock ticks
    release,      \* len(p.release): 0 or 1
    once,         \* p.once: "fresh", "running" (Do is executing), "done"
    cache,        \* p.workerCache: how many times each Worker object is in it
    nalloc,       \* Worker objects allocated so far
    task,         \* w.task: the buffered channel (capacity 1) of each Worker
    idleFor,      \* time.Now().Sub(w.lastTime) in ticks, counted up to expire + 1
    released,     \* Release has set w.task and w.pool to nil
    gWait,        \* goroutines of w that are at the receive of `range w.task`
    gExec,        \* goroutines of w that are executing a task
    gPut,         \* goroutines of w inside PutWorker, before p.lock.Lock()
    submitting,   \* the Submit calls past the closed test, as a bag of
                  \* [pc, holding]: the position inside Submit (parked: in
                  \* p.cond.Wait) and the Worker GetWorker handed over (0: none)
    sres,         \* what the latest Submit to return has returned
    submits,      \* number of Submit calls started so far
    relReturns,   \* number of Release calls that have returned
    restarted,    \* Restart was called after a Release had returned
    sweeper,      \* the expireWorker goroutine is still in its loop
    panicHandler, \* p.PanicHandler # nil
    recovered,    \* what the deferred function of Worker.running did with
                  \* the latest panic it recovered: "PanicHandler", "logged"
    crashed,      \* a panic left a worker goroutine unrecovered: the Go
                  \* runtime has ended the process
    \* ---- frame codec (src/web/rpc/tcp.go) ----
    reqId,        \* the package variable reqId (an int64)
    option,       \* the client's TcpClientOption: SerializeType, CompressType
    wire,         \* the bytes written to the connection and not yet read
    sent,         \* the header fields and the payload the encoder wrote last
    msg,          \* what the latest decodeFrame returned
    frames,       \* number of frames written so far
    \* ---- RPC server and client proxy (src/web/rpc/tcp.go) ----
    serviceMap,   \* s.serviceMap: the registered service names
    limiter,      \* s.Limiter: "nil" until SetLimiter, then "set"
    retries,      \* p.option.Retries
    call,         \* the Proxy.Call in progress: [pc, i, serviceName,
                  \* methodName, arg], i the loop variable
    conn,         \* client.conn: the connection the client holds (0: nil)
    accepted,     \* connections the listener has accepted so far; the
                  \* variables below are those of the latest one
    inbuf,        \* bytes the peer has written and the server has not read
    peerClosed,   \* the peer has closed its end of the connection
    outbuf,       \* bytes the server has written and the peer has not read
    srvClosed,    \* the server has closed the connection
    rspChan,      \* conn.rspChan: a buffered channel of capacity 1
    rpc,          \* position of the readHandle goroutine
    err2,         \* what s.Limiter.WaitN returned to readHandle
    wpc,          \* position of the writeHandle goroutine
    smsg,         \* what the server's decodeFrame returned
    nread,        \* bytes the server has read from the connection
    decodes,      \* decodeFrame calls the server made on the connection
    written,      \* response frames the server has written to the connection
    invoked,      \* the service methods the server has called for the
                  \* connection: a sequence of [service, method, ret]
    attempts,     \* the Invoke calls of the Proxy.Call: a sequence of
                  \* [conn, res, err], conn the connection written to
                  \* (0: none), (res, err) what Invoke returned
    cres          \* what Proxy.Call returned: [result, err]

breakerVars == <<cb, maxRequests, interval, timeout, hasFallback, now,
                 executing, result, calls>>

poolVars == <<cap, running, workers, expire, release, once, cache,
              nalloc, task, idleFor, released, gWait, gExec, gPut,
              submitting, sres, submits, relReturns, restarted, sweeper,
              panicHandler, recovered, crashed>>

codecVars == <<reqId, option, wire, sent, msg, frames>>

connVars == <<accepted, inbuf, peerClosed, outbuf, srvClosed, rspChan,
              rpc, err2, wpc, smsg, nread, decodes, written, invoked>>

rpcVars == <<serviceMap, limiter, retries, call, conn, attempts, cres, connVars>>

vars == <<breakerVars, poolVars, codecVars, rpcVars>>

(***************************************************************************)
(* Bounds of the model.                                                    *)
(***************************************************************************)
NumCallers == 2
MaxCalls == 9
MaxTime == 3
MaxMaxRequests == 1

NumSubmitters == 2
MaxSubmits == 2
MaxWorkers == 2
MaxCap == 2
MaxReleases == 2

MaxFrames == 1
MaxName == 2

MaxRetries == 2
MaxConns == 1

WorkerIds == 1..MaxWorkers

(***************************************************************************)
(*                           CIRCUIT BREAKER                               *)
(***************************************************************************)
StateClosed == "Closed"
StateHalfOpen == "HalfOpen"
StateOpen == "Open"

\* Counts.Clear
ZeroCounts ==
    [Requests |-> 0, TotalSuccesses |-> 0, TotalFailures |-> 0,
     ConsecutiveSuccesses |-> 0, ConsecutiveFailures |-> 0]

\* Counts.OnRequest
CountsOnRequest(c) == [c EXCEPT !.Requests = @ + 1]

\* Counts.OnSuccess
CountsOnSuccess(c) ==
    [c EXCEPT !.TotalSuccesses = @ + 1,
              !.ConsecutiveSuccesses = @ + 1,
              !.ConsecutiveFailures = 0]

\* Counts.OnFail
CountsOnFail(c) ==
    [c EXCEPT !.TotalFailures = @ + 1,
              !.ConsecutiveFailures = @ + 1,
              !.ConsecutiveSuccesses = 0]

\* the default trip predicate installed by NewCircuitBreaker
TripThreshold == 5
readyToTripLate(c) == c.ConsecutiveFailures > TripThreshold + 1
readyToTrip(c) == c.ConsecutiveFailures > TripThreshold

\* the zero time.Time
ZeroTime == 0
IsZero(t) == t = ZeroTime

\* time.Time.Before
Before(t, u) == t < u

\* NewGeneration: generation++, counts cleared, expiry recomputed from the
\* state the breaker is in when it is called.
NewGenerationKeepsCounts(b) ==
    [b EXCEPT !.generation = @ + 1,
              !.expiry = CASE b.state = StateClosed ->
                                  IF interval = 0 THEN ZeroTime ELSE now + interval
                           [] b.state = StateOpen -> now + timeout
                           [] OTHER -> ZeroTime]
NewGeneration(b) ==
    [b EXCEPT !.generation = @ + 1,
              !.counts = ZeroCounts,
              !.expiry = CASE b.state = StateClosed ->
                                  IF interval = 0 THEN ZeroTime ELSE now + interval
                           [] b.state = StateOpen -> now + timeout
                           [] OTHER -> ZeroTime]

\* SetState: nothing when the target is the current state, else the new
\* state and a new generation.
SetState(b, target) ==
    IF b.state = target THEN b
    ELSE NewGeneration([b EXCEPT !.state = target])

\* currentState panics ("unhandled default case") when its switch meets a
\* state that is neither StateClosed nor StateOpen.
CurrentStatePanics(b) == b.state \notin {StateClosed, StateOpen}

\* the Open -> HalfOpen test of currentState
OpenExpiredEarly(b) == ~ Before(now, b.expiry)
OpenExpired(b) == Before(b.expiry, now)

\* currentState: the breaker after the switch (the returned pair is its
\* state and generation fields).
CurrentState(b) ==
    CASE b.state = StateClosed ->
             IF ~ IsZero(b.expiry) /\ Before(b.expiry, now)
             THEN NewGeneration(b) ELSE b
      [] b.state = StateOpen ->
             IF OpenExpired(b) THEN SetState(b, StateHalfOpen) ELSE b
      [] OTHER -> b

\* OnSuccess / OnFail panic on the state they are handed being StateOpen.
OnResultPanics(s) == s \notin {StateClosed, StateHalfOpen}

\* CircuitBreaker.OnSuccess(state)
OnSuccess(b, s) ==
    CASE s = StateClosed -> [b EXCEPT !.counts = CountsOnSuccess(@)]
      [] s = StateHalfOpen ->
             LET b1 == [b EXCEPT !.counts = CountsOnSuccess(@)]
             IN  IF b1.counts.ConsecutiveSuccesses > maxRequests
                 THEN SetState(b1, StateClosed) ELSE b1
      [] OTHER -> b

\* CircuitBreaker.OnFail(state)
OnFail(b, s) ==
    CASE s = StateClosed ->
             LET b1 == [b EXCEPT !.counts = CountsOnFail(@)]
             IN  IF readyToTrip(b1.counts) THEN SetState(b1, StateOpen) ELSE b1
      [] s = StateHalfOpen -> SetState(b, StateOpen)
      [] OTHER -> b

\* what Execute returns when beforeRequest refuses the call
Rejection(err) == IF hasFallback THEN "fallback" ELSE err

\* beforeRequest's verdict on the breaker currentState left behind
RejectOpenNever(b) == FALSE
RejectOpen(b) == b.state = StateOpen
RejectTooMany(b) == b.state = StateHalfOpen /\ b.counts.Requests > maxRequests

\* the generation test of afterRequest
IsStale(gen, snapshot) == gen # snapshot

\* one call in a bag of calls, and the bag with call r moved on to r2
One(r) == SetToBag({r})
Moved(bag, r, r2) == (bag (-) One(r)) (+) One(r2)

\* NewCircuitBreaker
InitBreaker ==
    /\ maxRequests \in 1..MaxMaxRequests
    /\ interval \in {0, 1}
    /\ timeout = 1
    /\ hasFallback \in BOOLEAN
    /\ now = 1
    /\ cb = NewGeneration([state |-> StateClosed, generation |-> 0,
                           counts |-> ZeroCounts, expiry |-> ZeroTime])
    /\ executing = EmptyBag
    /\ result = "none"
    /\ calls = 0

\* Execute, up to and including beforeRequest: consult the state, then either
\* return the rejection or go on to invoke req. At most NumCallers calls are
\* inside Execute at a time.
BeforeRequest ==
    /\ UNCHANGED <<poolVars, codecVars, rpcVars>>
    /\ BagCardinality(executing) < NumCallers
    /\ calls < MaxCalls
    /\ calls' = calls + 1
    /\ UNCHANGED <<maxRequests, interval, timeout, hasFallback, now>>
    /\ IF CurrentStatePanics(cb)
       THEN /\ result' = "panic"
            /\ UNCHANGED <<cb, executing>>
       ELSE LET b1 == CurrentState(cb) IN
            /\ cb' = b1
            /\ IF RejectOpen(b1)
               THEN /\ result' = Rejection("errOpen")
                    /\ UNCHANGED executing
               ELSE IF RejectTooMany(b1)
               THEN /\ result' = Rejection("errTooMany")
                    /\ UNCHANGED executing
               ELSE /\ executing' = executing (+)
                          One([pc |-> "req", before |-> b1.generation,
                               success |-> FALSE])
                    /\ UNCHANGED result

\* req() returns, with or without an error
ReqReturn(r) ==
    /\ UNCHANGED <<poolVars, codecVars, rpcVars>>
    /\ r.pc = "req"
    /\ \E ok \in BOOLEAN :
         executing' = Moved(executing, r, [r EXCEPT !.pc = "onreq", !.success = ok])
    /\ UNCHANGED <<cb, maxRequests, interval, timeout, hasFallback, now,
                   result, calls>>

\* cb.counts.OnRequest() in Execute
OnRequest(r) ==
    /\ UNCHANGED <<poolVars, codecVars, rpcVars>>
    /\ r.pc = "onreq"
    /\ cb' = [cb EXCEPT !.counts = CountsOnRequest(@)]
    /\ executing' = Moved(executing, r, [r EXCEPT !.pc = "after"])
    /\ UNCHANGED <<maxRequests, interval, timeout, hasFallback, now,
                   result, calls>>

\* afterRequest and the return of Execute
AfterRequest(r) ==
    /\ UNCHANGED <<poolVars, codecVars, rpcVars>>
    /\ r.pc = "after"
    /\ executing' = executing (-) One(r)
    /\ UNCHANGED <<maxRequests, interval, timeout, hasFallback, now, calls>>
    /\ IF CurrentStatePanics(cb)
       THEN /\ result' = "panic"
            /\ cb' = cb
       ELSE LET b1 == CurrentState(cb) IN
            IF IsStale(b1.generation, r.before)
            THEN /\ cb' = b1
                 /\ result' = IF r.success THEN "ok" ELSE "err"
            ELSE IF OnResultPanics(b1.state)
            THEN /\ cb' = b1
                 /\ result' = "panic"
            ELSE /\ cb' = IF r.success THEN OnSuccess(b1, b1.state)
                                       ELSE OnFail(b1, b1.state)
                 /\ result' = IF r.success THEN "ok" ELSE "err"

\* the clock advances. The breaker reads the clock only against an expiry
\* that is set; time that passes while none is pending, or after it has
\* passed, moves every later expiry alike and is left out.
Tick ==
    /\ UNCHANGED <<poolVars, codecVars, rpcVars>>
    /\ now < MaxTime
    /\ ~ IsZero(cb.expiry) /\ ~ Before(cb.expiry, now)
    /\ now' = now + 1
    /\ UNCHANGED <<cb, maxRequests, interval, timeout, hasFallback,
                   executing, result, calls>>

NextBreaker ==
    \/ BeforeRequest
    \/ \E r \in BagToSet(executing) : ReqReturn(r)
    \/ \E r \in BagToSet(executing) : OnRequest(r)
    \/ \E r \in BagToSet(executing) : AfterRequest(r)
    \/ Tick

\* cb.counts.OnRequest() is c.Requests++ on the shared Counts, and Execute
\* calls it without holding cb.mutex: the increment is a load and a store
\* that other callers' steps can come between. This is the load.
OnRequestLoad(r) ==
    /\ UNCHANGED <<poolVars, codecVars, rpcVars>>
    /\ r.pc = "onreq"
    /\ executing' = Moved(executing, r,
                          [pc |-> "store", before |-> r.before,
                           success |-> r.success,
                           loaded |-> cb.counts.Requests])
    /\ UNCHANGED <<cb, maxRequests, interval, timeout, hasFallback, now,
                   result, calls>>

\* the store of c.Requests++: the value loaded, plus one
OnRequestStore(r) ==
    /\ UNCHANGED <<poolVars, codecVars, rpcVars>>
    /\ r.pc = "store"
    /\ cb' = [cb EXCEPT !.counts.Requests = r.loaded + 1]
    /\ executing' = Moved(executing, r,
                          [pc |-> "after", before |-> r.before,
                           success |-> r.success])
    /\ UNCHANGED <<maxRequests, interval, timeout, hasFallback, now,
                   result, calls>>

\* Execute calls whose unlocked increments interleave
NextBreakerRace ==
    \/ BeforeRequest
    \/ \E r \in BagToSet(executing) : ReqReturn(r)
    \/ \E r \in BagToSet(executing) : OnRequestLoad(r)
    \/ \E r \in BagToSet(executing) : OnRequestStore(r)
    \/ \E r \in BagToSet(executing) : AfterRequest(r)
    \/ Tick


(***************************************************************************)
(*                              WORKER POOL                                *)
(***************************************************************************)

\* NewTimePool: an empty pool; the expiry goroutine is started.
InitPool ==
    /\ cap \in 1..MaxCap
    /\ expire = 1
    /\ running = 0
    /\ workers = <<>>
    /\ release = 0
    /\ once = "fresh"
    /\ cache = [w \in WorkerIds |-> 0]
    /\ nalloc = 0
    /\ task = [w \in WorkerIds |-> <<>>]
    /\ idleFor = [w \in WorkerIds |-> 0]
    /\ released = [w \in WorkerIds |-> FALSE]
    /\ gWait = [w \in WorkerIds |-> 0]
    /\ gExec = [w \in WorkerIds |-> 0]
    /\ gPut = [w \in WorkerIds |-> 0]
    /\ submitting = EmptyBag
    /\ sres = "none"
    /\ submits = 0
    /\ relReturns = 0
    /\ restarted = FALSE
    /\ sweeper = TRUE
    /\ panicHandler = FALSE
    /\ recovered = "none"
    /\ crashed = FALSE

\* Pool.IsClosed, and the same test at the head of Submit
IsClosed == release > 0
SubmitSeesClosedNever == FALSE
SubmitSeesClosed == release > 0

\* Pool.Running / Pool.Free
Running == running
Free == cap - running

\* the capacity test of GetWorker and waitIdleWorker
UnderCap == running < cap

\* a Submit call at position pc that holds Worker w
At(pc, w) == [pc |-> pc, holding |-> w]

\* p.cond.Signal(): one of the calls parked in p.cond.Wait, if there is
\* any, is made runnable
Signal(bag) ==
    IF BagIn(At("parked", 0), bag)
    THEN Moved(bag, At("parked", 0), At("woken", 0))
    ELSE bag

\* the last element of the idle list, and the list without it
LastIdle == workers[Len(workers)]
PopIdle == SubSeq(workers, 1, Len(workers) - 1)

\* w.lastTime will still be read: w is stamped and on its way into the idle
\* list, or in it
Stamped(w) == gPut[w] > 0 \/ \E i \in 1..Len(workers) : workers[i] = w

\* the stamps that can still be read once the idle list is ws (a stamp
\* nothing reads any more is written down as 0)
LiveStamps(ws) ==
    [w \in WorkerIds |->
        IF gPut[w] > 0 \/ \E i \in 1..Len(ws) : ws[i] = w THEN idleFor[w] ELSE 0]

\* Submit, its head: the closed test. At most NumSubmitters calls are inside
\* Submit at a time.
SubmitStart ==
    /\ ~ crashed
    /\ BagCardinality(submitting) < NumSubmitters
    /\ submits < MaxSubmits
    /\ submits' = submits + 1
    /\ IF SubmitSeesClosed
       THEN /\ sres' = "ErrorHasClosed"
            /\ UNCHANGED submitting
       ELSE /\ submitting' = submitting (+) One(At("get", 0))
            /\ UNCHANGED sres
    /\ UNCHANGED <<cap, running, workers, expire, release, once, cache,
                   nalloc, task, idleFor, released, gWait, gExec, gPut,
                   relReturns, restarted, sweeper>>
    /\ UNCHANGED <<panicHandler, recovered, crashed>>
    /\ UNCHANGED <<breakerVars, codecVars, rpcVars>>

\* GetWorker, the section under p.lock: pop the newest idle worker, or
\* decide to start one (running < cap), or go and wait.
GetWorker(r) ==
    /\ ~ crashed
    /\ r.pc = "get"
    /\ IF Len(workers) > 0
       THEN /\ submitting' = Moved(submitting, r, At("send", LastIdle))
            /\ workers' = PopIdle
            /\ idleFor' = LiveStamps(PopIdle)
       ELSE /\ submitting' = Moved(submitting, r,
                                   At(IF UnderCap THEN "spawn" ELSE "towait", 0))
            /\ UNCHANGED <<workers, idleFor>>
    /\ UNCHANGED <<cap, running, expire, release, once, cache,
                   nalloc, task, released, gWait, gExec, gPut,
                   sres, submits, relReturns, restarted, sweeper>>
    /\ UNCHANGED <<panicHandler, recovered, crashed>>
    /\ UNCHANGED <<breakerVars, codecVars, rpcVars>>

\* p.workerCache.Get(): any Worker object in the cache, or a new one from
\* New (sync.Pool may treat the cache as empty).
CacheChoices ==
    {<<w, "cached">> : w \in {x \in WorkerIds : cache[x] > 0}}
      \cup (IF nalloc < MaxWorkers THEN {<<nalloc + 1, "new">>} ELSE {})

\* GetWorker / waitIdleWorker after the unlock: take a Worker object from
\* the cache and w.run() it (incRunning, then go w.running()).
Spawn(r) ==
    /\ ~ crashed
    /\ r.pc = "spawn"
    /\ \E ch \in CacheChoices :
         LET w == ch[1] IN
         /\ ~ released[w]
         /\ cache' = IF ch[2] = "cached" THEN [cache EXCEPT ![w] = @ - 1] ELSE cache
         /\ nalloc' = IF ch[2] = "new" THEN nalloc + 1 ELSE nalloc
         /\ running' = running + 1
         /\ gWait' = [gWait EXCEPT ![w] = @ + 1]
         /\ submitting' = Moved(submitting, r, At("send", w))
    /\ UNCHANGED <<cap, workers, expire, release, once,
                   task, idleFor, released, gExec, gPut,
                   sres, submits, relReturns, restarted, sweeper>>
    /\ UNCHANGED <<panicHandler, recovered, crashed>>
    /\ UNCHANGED <<breakerVars, codecVars, rpcVars>>

\* waitIdleWorker: p.lock.Lock(); p.cond.Wait() parks the caller.
WaitPark(r) ==
    /\ ~ crashed
    /\ r.pc = "towait"
    /\ submitting' = Moved(submitting, r, At("parked", 0))
    /\ UNCHANGED <<cap, running, workers, expire, release, once, cache,
                   nalloc, task, idleFor, released, gWait, gExec, gPut,
                   sres, submits, relReturns, restarted, sweeper>>
    /\ UNCHANGED <<panicHandler, recovered, crashed>>
    /\ UNCHANGED <<breakerVars, codecVars, rpcVars>>

\* waitIdleWorker after the wake-up: pop an idle worker, or start one if
\* running < cap, or wait again.
Woken(r) ==
    /\ ~ crashed
    /\ r.pc = "woken"
    /\ IF Len(workers) > 0
       THEN /\ submitting' = Moved(submitting, r, At("send", LastIdle))
            /\ workers' = PopIdle
            /\ idleFor' = LiveStamps(PopIdle)
       ELSE /\ submitting' = Moved(submitting, r,
                                   At(IF UnderCap THEN "spawn" ELSE "towait", 0))
            /\ UNCHANGED <<workers, idleFor>>
    /\ UNCHANGED <<cap, running, expire, release, once, cache,
                   nalloc, task, released, gWait, gExec, gPut,
                   sres, submits, relReturns, restarted, sweeper>>
    /\ UNCHANGED <<panicHandler, recovered, crashed>>
    /\ UNCHANGED <<breakerVars, codecVars, rpcVars>>

\* Submit: w.task <- task (blocks while the one-slot buffer is full, and for
\* ever on the nil channel of a released Worker).
SendTask(r) ==
    /\ ~ crashed
    /\ r.pc = "send"
    /\ ~ released[r.holding]
    /\ Len(task[r.holding]) < 1
    /\ task' = [task EXCEPT ![r.holding] = Append(@, "task")]
    /\ submitting' = Moved(submitting, r, At("inc", r.holding))
    /\ UNCHANGED <<cap, running, workers, expire, release, once, cache,
                   nalloc, idleFor, released, gWait, gExec, gPut,
                   sres, submits, relReturns, restarted, sweeper>>
    /\ UNCHANGED <<panicHandler, recovered, crashed>>
    /\ UNCHANGED <<breakerVars, codecVars, rpcVars>>

\* Submit: w.pool.incRunning(); return nil.
IncRunning(r) ==
    /\ ~ crashed
    /\ r.pc = "inc"
    /\ ~ released[r.holding]
    /\ running' = running + 1
    /\ submitting' = submitting (-) One(r)
    /\ sres' = "nil"
    /\ UNCHANGED <<cap, workers, expire, release, once, cache,
                   nalloc, task, idleFor, released, gWait, gExec, gPut,
                   submits, relReturns, restarted, sweeper>>
    /\ UNCHANGED <<panicHandler, recovered, crashed>>
    /\ UNCHANGED <<breakerVars, codecVars, rpcVars>>

\* Worker.running: a goroutine of w receives from w.task (the channel it
\* ranges over, also after Release has set the field to nil). A task is
\* taken up; the nil sentinel makes the goroutine return:
\* workerCache.Put(w), and in the deferred function decRunning,
\* workerCache.Put(w) again and cond.Signal(). Once Release has set w.pool to
\* nil, w.pool.workerCache dereferences nil, and so does the deferred
\* function before it reaches recover(): the process ends.
Receive(w) ==
    /\ ~ crashed
    /\ gWait[w] > 0
    /\ task[w] # <<>>
    /\ task' = [task EXCEPT ![w] = Tail(@)]
    /\ gWait' = [gWait EXCEPT ![w] = @ - 1]
    /\ IF Head(task[w]) = "nil"
       THEN IF released[w]
            THEN /\ crashed' = TRUE
                 /\ UNCHANGED <<cache, running, submitting, gExec>>
            ELSE /\ cache' = [cache EXCEPT ![w] = @ + 2]
                 /\ running' = running - 1
                 /\ submitting' = Signal(submitting)
                 /\ UNCHANGED <<gExec, crashed>>
       ELSE /\ gExec' = [gExec EXCEPT ![w] = @ + 1]
            /\ UNCHANGED <<cache, running, submitting, crashed>>
    /\ UNCHANGED <<cap, workers, expire, release, once,
                   nalloc, idleFor, released, gPut,
                   sres, submits, relReturns, restarted, sweeper>>
    /\ UNCHANGED <<panicHandler, recovered>>
    /\ UNCHANGED <<breakerVars, codecVars, rpcVars>>

\* Worker.running: the task returns and the goroutine enters
\* w.pool.PutWorker(w), which stamps w.lastTime = time.Now() before it takes
\* p.lock. Once Release has set w.pool to nil, p.lock.Lock() dereferences
\* nil, and so does w.pool.decRunning() in the deferred function before it
\* reaches recover(): the process ends.
TaskDone(w) ==
    /\ ~ crashed
    /\ gExec[w] > 0
    /\ IF released[w]
       THEN /\ crashed' = TRUE
            /\ UNCHANGED <<gExec, gPut, idleFor>>
       ELSE /\ gExec' = [gExec EXCEPT ![w] = @ - 1]
            /\ gPut' = [gPut EXCEPT ![w] = @ + 1]
            /\ idleFor' = [idleFor EXCEPT ![w] = 0]
            /\ UNCHANGED crashed
    /\ UNCHANGED <<cap, running, workers, expire, release, once, cache,
                   nalloc, task, released, gWait,
                   submitting, sres, submits, relReturns, restarted, sweeper>>
    /\ UNCHANGED <<panicHandler, recovered>>
    /\ UNCHANGED <<breakerVars, codecVars, rpcVars>>

\* PutWorker under p.lock: append w to the idle list and Signal; the
\* goroutine goes back to the receive.
PutWorker(w) ==
    /\ ~ crashed
    /\ gPut[w] > 0
    /\ gPut' = [gPut EXCEPT ![w] = @ - 1]
    /\ gWait' = [gWait EXCEPT ![w] = @ + 1]
    /\ workers' = Append(workers, w)
    /\ submitting' = Signal(submitting)
    /\ UNCHANGED <<cap, running, expire, release, once, cache,
                   nalloc, task, idleFor, released, gExec,
                   sres, submits, relReturns, restarted, sweeper>>
    /\ UNCHANGED <<panicHandler, recovered, crashed>>
    /\ UNCHANGED <<breakerVars, codecVars, rpcVars>>

\* Worker.running: the task panics; the deferred function runs decRunning,
\* workerCache.Put(w), recover() with the panic handler (or the logger when
\* there is none) and cond.Signal(), and the goroutine ends. Once Release
\* has set w.pool to nil, w.pool.decRunning() dereferences nil before
\* recover() is reached: the process ends.
TaskPanic(w) ==
    /\ ~ crashed
    /\ gExec[w] > 0
    /\ IF released[w]
       THEN /\ crashed' = TRUE
            /\ UNCHANGED <<gExec, running, cache, submitting, recovered>>
       ELSE /\ gExec' = [gExec EXCEPT ![w] = @ - 1]
            /\ running' = running - 1
            /\ cache' = [cache EXCEPT ![w] = @ + 1]
            /\ recovered' = IF panicHandler THEN "PanicHandler" ELSE "logged"
            /\ submitting' = Signal(submitting)
            /\ UNCHANGED crashed
    /\ UNCHANGED <<cap, workers, expire, release, once,
                   nalloc, task, idleFor, released, gWait, gPut,
                   sres, submits, relReturns, restarted, sweeper>>
    /\ UNCHANGED panicHandler
    /\ UNCHANGED <<breakerVars, codecVars, rpcVars>>

\* expireWorker: the number of leading idle workers whose idle time is
\* over p.expire (the scan stops at the first one that is not).
RECURSIVE ExpiredPrefix(_)
ExpiredPrefix(ws) ==
    IF ws = <<>> THEN 0
    ELSE IF idleFor[Head(ws)] <= expire THEN 0
    ELSE 1 + ExpiredPrefix(Tail(ws))

\* the nil sentinels the sweep sends: one send per swept list entry
RECURSIVE SendNils(_, _)
SendNils(t, ws) ==
    IF ws = <<>> THEN t
    ELSE SendNils([t EXCEPT ![Head(ws)] = Append(@, "nil")], Tail(ws))

\* the sweep cannot complete while a channel it sends to is full
RECURSIVE SweepBlocks(_, _)
SweepBlocks(t, ws) ==
    IF ws = <<>> THEN FALSE
    ELSE \/ Len(t[Head(ws)]) >= 1
         \/ SweepBlocks([t EXCEPT ![Head(ws)] = Append(@, "nil")], Tail(ws))

\* expireWorker, one tick of its ticker: leave the loop when the pool is
\* closed, else sweep the expired prefix of the idle list under p.lock.
ExpireTick ==
    /\ ~ crashed
    /\ sweeper
    /\ IF IsClosed
       THEN /\ sweeper' = FALSE
            /\ UNCHANGED <<workers, task, idleFor>>
       ELSE LET n == ExpiredPrefix(workers)
                gone == SubSeq(workers, 1, n)
                kept == SubSeq(workers, n + 1, Len(workers))
            IN  /\ ~ SweepBlocks(task, gone)
                /\ task' = SendNils(task, gone)
                /\ workers' = kept
                /\ idleFor' = LiveStamps(kept)
                /\ UNCHANGED sweeper
    /\ UNCHANGED <<cap, running, expire, release, once, cache,
                   nalloc, released, gWait, gExec, gPut,
                   submitting, sres, submits, relReturns, restarted>>
    /\ UNCHANGED <<panicHandler, recovered, crashed>>
    /\ UNCHANGED <<breakerVars, codecVars, rpcVars>>

\* sync.Once.Do runs its function only for the first caller
OnceRunsAlways(o) == o # "running"
OnceRuns(o) == o = "fresh"

\* Release, first part: once.Do enters the function; under p.lock every
\* idle worker gets task = nil and pool = nil and the idle list is dropped.
\* A later caller waits in once.Do while the first is inside it, and
\* returns from it without running the function.
ReleaseCall ==
    /\ ~ crashed
    /\ once # "running"
    /\ relReturns < MaxReleases
    /\ IF OnceRuns(once)
       THEN /\ once' = "running"
            /\ released' = [w \in WorkerIds |->
                              released[w] \/ \E i \in 1..Len(workers) : workers[i] = w]
            /\ workers' = <<>>
            /\ idleFor' = LiveStamps(<<>>)
            /\ UNCHANGED <<relReturns>>
       ELSE /\ relReturns' = relReturns + 1
            /\ UNCHANGED <<once, released, workers, idleFor>>
    /\ UNCHANGED <<cap, running, expire, release, cache,
                   nalloc, task, gWait, gExec, gPut,
                   submitting, sres, submits, restarted, sweeper>>
    /\ UNCHANGED <<panicHandler, recovered, crashed>>
    /\ UNCHANGED <<breakerVars, codecVars, rpcVars>>

\* Release, second part: p.release <- sig{} (blocks while the one-slot
\* channel is full), then once.Do and Release return.
ReleaseSignal ==
    /\ ~ crashed
    /\ once = "running"
    /\ release < 1
    /\ release' = release + 1
    /\ once' = "done"
    /\ relReturns' = relReturns + 1
    /\ UNCHANGED <<cap, running, workers, expire, cache,
                   nalloc, task, idleFor, released, gWait, gExec, gPut,
                   submitting, sres, submits, restarted, sweeper>>
    /\ UNCHANGED <<panicHandler, recovered, crashed>>
    /\ UNCHANGED <<breakerVars, codecVars, rpcVars>>

\* Restart: take the signal out of p.release if there is one.
Restart ==
    /\ ~ crashed
    /\ release' = IF release > 0 THEN release - 1 ELSE release
    /\ restarted' = (restarted \/ relReturns > 0)
    /\ UNCHANGED <<cap, running, workers, expire, once, cache,
                   nalloc, task, idleFor, released, gWait, gExec, gPut,
                   submitting, sres, submits, relReturns, sweeper>>
    /\ UNCHANGED <<panicHandler, recovered, crashed>>
    /\ UNCHANGED <<breakerVars, codecVars, rpcVars>>

\* time passes: the time since the lastTime stamp grows by one tick for
\* every Worker whose stamp will still be read (beyond expire + 1 the sweep
\* no longer tells the values apart)
PoolTick ==
    /\ ~ crashed
    /\ \E w \in WorkerIds : Stamped(w) /\ idleFor[w] <= expire
    /\ idleFor' = [w \in WorkerIds |->
                     IF Stamped(w) /\ idleFor[w] <= expire
                     THEN idleFor[w] + 1 ELSE idleFor[w]]
    /\ UNCHANGED <<cap, running, workers, expire, release, once, cache,
                   nalloc, task, released, gWait, gExec, gPut,
                   submitting, sres, submits, relReturns, restarted, sweeper>>
    /\ UNCHANGED <<panicHandler, recovered, crashed>>
    /\ UNCHANGED <<breakerVars, codecVars, rpcVars>>

NextPool ==
    \/ SubmitStart
    \/ \E r \in BagToSet(submitting) : GetWorker(r)
    \/ \E r \in BagToSet(submitting) : Spawn(r)
    \/ \E r \in BagToSet(submitting) : WaitPark(r)
    \/ \E r \in BagToSet(submitting) : Woken(r)
    \/ \E r \in BagToSet(submitting) : SendTask(r)
    \/ \E r \in BagToSet(submitting) : IncRunning(r)
    \/ \E w \in WorkerIds : Receive(w)
    \/ \E w \in WorkerIds : TaskDone(w)
    \/ \E w \in WorkerIds : PutWorker(w)
    \/ \E w \in WorkerIds : TaskPanic(w)
    \/ ExpireTick
    \/ ReleaseCall
    \/ ReleaseSignal
    \/ Restart
    \/ PoolTick

(***************************************************************************)
(*                              FRAME CODEC                                *)
(* Bytes are 0..255. An int64 or uint32 value is held as its bytes, least  *)
(* significant first (8 or 4 of them), so that no width is lost.           *)
(***************************************************************************)
MagicNumber == 29
Version == 1

msgRequest == 0
msgResponse == 1
msgPing == 2
msgPong == 3

Gob == 0
ProtoBuff == 1

Gzip == 0

\* the length of the frame header: make([]byte, 17)
HeaderLen == 17

Reverse(b) == [i \in 1..Len(b) |-> b[Len(b) + 1 - i]]

\* the k-byte value of a number 0 <= n < 2^31
Value(n, k) ==
    [i \in 1..k |->
        CASE i = 1 -> n % 256
          [] i = 2 -> (n \div 256) % 256
          [] i = 3 -> (n \div 65536) % 256
          [] i = 4 -> (n \div 16777216) % 256
          [] OTHER -> 0]

\* int32(u) of a uint32 value u, as a number
Int32(u) ==
    (IF u[4] >= 128 THEN u[4] - 256 ELSE u[4]) * 16777216
        + u[3] * 65536 + u[2] * 256 + u[1]

\* int64(u) of a uint32 value u: zero extension
Int64(u) == u \o <<0, 0, 0, 0>>

\* atomic.AddInt64(&v, 1): the value after the addition (wraps around)
RECURSIVE AddInt64(_)
AddInt64(v) ==
    IF v = <<>> THEN <<>>
    ELSE IF Head(v) < 255 THEN <<Head(v) + 1>> \o Tail(v)
    ELSE <<0>> \o AddInt64(Tail(v))

\* binary.BigEndian.PutUint64 / PutUint32: most significant byte first
PutUint64(v) == Reverse(v)
PutUint32(u) == Reverse(u)

\* binary.BigEndian.Uint32(b): the value of the first 4 bytes of b
Uint32(b) == Reverse(SubSeq(b, 1, 4))

\* the bytes of an int16
PutInt16(n) == <<(n \div 256) % 256, n % 256>>
Int16(b) == b[1] * 256 + b[2]

RECURSIVE SumBytes(_)
SumBytes(b) == IF b = <<>> THEN 0 ELSE (Head(b) + SumBytes(Tail(b))) % 256

\* GzipCompress.Compress: the gzip member, cut down to its magic bytes
\* (0x1f 0x8b), the data and a one-byte checksum. The argument is bound
\* to d (and to z in UnCompress) so that it is evaluated once.
Compress(data) ==
    CHOOSE z \in {<<31, 139>> \o d \o <<SumBytes(d)>> : d \in {data}} : TRUE

\* GzipCompress.UnCompress: gzip.NewReader fails on a bad magic; the
\* deferred reader.Close() then runs on the nil reader and panics. A bad
\* checksum is an error of ReadFrom.
UnCompress(data) ==
    CHOOSE r \in
      { IF Len(z) < 3 \/ z[1] # 31 \/ z[2] # 139
        THEN [err |-> "panic", data |-> <<>>]
        ELSE LET d == SubSeq(z, 3, Len(z) - 1) IN
             IF z[Len(z)] # SumBytes(d)
             THEN [err |-> "gzip: invalid checksum", data |-> <<>>]
             ELSE [err |-> "nil", data |-> d]
        : z \in {data} } : TRUE

\* loadCompress / loadSerializer: is there one for the tag
loadCompress(compressType) == compressType = Gzip
loadSerializer(serializerType) == serializerType \in {Gob, ProtoBuff}

\* the payload types: MsRpcRequest and MsRpcResponse (Gob), Request and
\* Response (Protobuf)
IsRequestType(t) == t \in {"MsRpcRequest", "Request"}

\* the value types a Data field holds
DataKinds == <<"null", "scalar", "object">>
KindCode(k) == CHOOSE i \in 1..Len(DataKinds) : DataKinds[i] = k

\* the fields of a payload as bytes
FieldBytes(m) ==
    IF IsRequestType(m.type)
    THEN PutUint64(m.RequestId) \o <<m.ServiceName, m.MethodName>> \o m.Args
    ELSE PutUint64(m.RequestId) \o PutInt16(m.Code)
           \o <<m.Msg, m.CompressType, m.SerializeType>>
           \o <<KindCode(m.Data.kind), m.Data.v>>

\* Serializer.Serialize: gob and protobuf streams start differently
SerializerMark(se) == IF se = Gob THEN 103 ELSE 112
Serialize(se, m) == <<SerializerMark(se)>> \o FieldBytes(m)

\* Serializer.DeSerialize into a value of type target
DeSerialize(se, b, target) ==
    IF b = <<>> \/ b[1] # SerializerMark(se)
    THEN [err |-> "decode error"]
    ELSE IF IsRequestType(target)
    THEN IF Len(b) < 11
         THEN [err |-> "decode error"]
         ELSE [err |-> "nil",
               value |-> [type |-> target,
                          RequestId |-> Reverse(SubSeq(b, 2, 9)),
                          ServiceName |-> b[10],
                          MethodName |-> b[11],
                          Args |-> SubSeq(b, 12, Len(b))]]
    ELSE IF Len(b) # 16 \/ b[15] \notin 1..Len(DataKinds)
         THEN [err |-> "decode error"]
         ELSE [err |-> "nil",
               value |-> [type |-> target,
                          RequestId |-> Reverse(SubSeq(b, 2, 9)),
                          Code |-> Int16(SubSeq(b, 10, 11)),
                          Msg |-> b[12],
                          CompressType |-> b[13],
                          SerializeType |-> b[14],
                          Data |-> [kind |-> DataKinds[b[15]], v |-> b[16]]]]

\* the 17 header bytes the encoders write
HeaderBytes(messageType, compressType, serializeType, requestId, body) ==
    <<MagicNumber, Version>>
      \o PutUint32(Value(HeaderLen + Len(body), 4))
      \o <<messageType, compressType, serializeType>>
      \o PutUint64(requestId)

\* the Header the encoders' bytes stand for
HeaderOf(messageType, compressType, serializeType, requestId, body) ==
    [MagicNumber |-> MagicNumber, Version |-> Version,
     FullLength |-> HeaderLen + Len(body),
     MessageType |-> messageType, CompressType |-> compressType,
     SerializeType |-> serializeType, RequestId |-> requestId]

\* Send, the ProtoBuff branch: rsp.Data goes through json.Marshal and
\* json.Unmarshal into a map; what is not a JSON object leaves the map empty
StructValue(d) ==
    IF d.kind = "object" THEN d ELSE [kind |-> "object", v |-> 0]

\* the payload Send serializes for rsp
SendPayload(rsp) ==
    IF rsp.SerializeType = ProtoBuff
    THEN [rsp EXCEPT !.type = "Response", !.Data = StructValue(@)]
    ELSE rsp

\* the payload Invoke serializes: the ProtoBuff branch draws its RequestId
\* from reqId a second time
InvokePayload(req, id2) ==
    IF option.SerializeType = ProtoBuff
    THEN [req EXCEPT !.type = "Request", !.RequestId = id2]
    ELSE req

\* decodeFrame's test of the magic byte: mn != MagicNumber
MagicOkAny(mn) == TRUE
MagicOk(mn) == mn = MagicNumber

\* decodeFrame, reading from the bytes b of the connection; read is the
\* number of bytes the two io.ReadFull calls took from it
decodeFrame(b) ==
    IF Len(b) < HeaderLen
    THEN [err |-> IF b = <<>> THEN "EOF" ELSE "unexpected EOF", read |-> Len(b)]
    ELSE LET headers == SubSeq(b, 1, HeaderLen)
             fullLength == Int32(Uint32(SubSeq(headers, 3, 6)))
             messageType == headers[7]
             compressType == headers[8]
             seType == headers[9]
             requestId == Int64(Uint32(SubSeq(headers, 10, HeaderLen)))
             header == [MagicNumber |-> headers[1], Version |-> headers[2],
                        FullLength |-> fullLength,
                        MessageType |-> messageType,
                        CompressType |-> compressType,
                        SerializeType |-> seType,
                        RequestId |-> requestId]
             bodyLen == fullLength - HeaderLen
             all == HeaderLen + bodyLen
         IN
         IF ~ MagicOk(headers[1])
         THEN [err |-> "magic number error", read |-> HeaderLen]
         ELSE IF bodyLen < 0 THEN [err |-> "panic", read |-> HeaderLen]
         ELSE IF Len(b) < all
         THEN [err |-> IF Len(b) = HeaderLen THEN "EOF" ELSE "unexpected EOF",
               read |-> Len(b)]
         ELSE IF ~ loadCompress(compressType)
         THEN [err |-> "no compress", read |-> all]
         ELSE LET un == UnCompress(SubSeq(b, HeaderLen + 1, all)) IN
         IF un.err # "nil" THEN [err |-> un.err, read |-> all]
         ELSE IF ~ loadSerializer(seType)
         THEN [err |-> "no serializer", read |-> all]
         ELSE IF messageType \notin {msgRequest, msgResponse}
         THEN [err |-> "no message type", read |-> all]
         ELSE LET target ==
                      IF messageType = msgRequest
                      THEN (IF seType = ProtoBuff THEN "Request" ELSE "MsRpcRequest")
                      ELSE (IF seType = ProtoBuff THEN "Response" ELSE "MsRpcResponse")
                  de == DeSerialize(seType, un.data, target)
              IN  IF de.err # "nil" THEN [err |-> de.err, read |-> all]
                  ELSE [err |-> "nil", read |-> all,
                        header |-> header, data |-> de.value]

\* the values of the model: names, arguments and messages are single bytes
Names == 1..MaxName

\* request ids a response can carry: small ones and one past 32 bits
SampleIds == {Value(0, 8), Value(1, 8), Value(256, 8),
              <<0, 0, 0, 0, 1, 0, 0, 0>>}

\* the counter a client process can have reached: untouched, or about to
\* produce ids that need a second byte or a fifth
StartIds == {Value(0, 8), Value(255, 8), <<255, 255, 255, 255, 0, 0, 0, 0>>}

\* the responses the server hands to Send
Responses ==
    [type : {"MsRpcResponse"}, RequestId : SampleIds, Code : {200, 500},
     Msg : {0, 1}, CompressType : {Gzip}, SerializeType : {Gob, ProtoBuff},
     Data : [kind : {"null", "scalar", "object"}, v : Names]]

NoFrame == [header |-> "none", data |-> "none"]

InitCodec ==
    /\ reqId \in StartIds
    /\ option \in [SerializeType : {Gob, ProtoBuff}, CompressType : {Gzip}]
    /\ wire = <<>>
    /\ sent = NoFrame
    /\ msg = [err |-> "none"]
    /\ frames = 0

\* MsTcpClient.Invoke, up to the two conn.Write calls
Invoke(serviceName, methodName, arg) ==
    /\ wire = <<>>
    /\ frames < MaxFrames
    /\ LET id1 == AddInt64(reqId)
           id2 == AddInt64(id1)
           req == [type |-> "MsRpcRequest", RequestId |-> id1,
                   ServiceName |-> serviceName, MethodName |-> methodName,
                   Args |-> <<arg>>]
           payload == InvokePayload(req, id2)
           body == Compress(Serialize(option.SerializeType, payload))
       IN  /\ reqId' = IF option.SerializeType = ProtoBuff THEN id2 ELSE id1
           /\ wire' = HeaderBytes(msgRequest, option.CompressType,
                                  option.SerializeType, id1, body) \o body
           /\ sent' = [header |-> HeaderOf(msgRequest, option.CompressType,
                                           option.SerializeType, id1, body),
                       data |-> payload]
    /\ frames' = frames + 1
    /\ UNCHANGED <<option, msg>>
    /\ UNCHANGED <<breakerVars, poolVars, rpcVars>>

\* MsTcpConn.Send
Send(rsp) ==
    /\ wire = <<>>
    /\ frames < MaxFrames
    /\ LET payload == SendPayload(rsp)
           body == Compress(Serialize(rsp.SerializeType, payload))
       IN  /\ wire' = HeaderBytes(msgResponse, rsp.CompressType,
                                  rsp.SerializeType, rsp.RequestId, body) \o body
           /\ sent' = [header |-> HeaderOf(msgResponse, rsp.CompressType,
                                           rsp.SerializeType, rsp.RequestId, body),
                       data |-> payload]
    /\ frames' = frames + 1
    /\ UNCHANGED <<reqId, option, msg>>
    /\ UNCHANGED <<breakerVars, poolVars, rpcVars>>

\* the peer's readHandle calls decodeFrame on the bytes of the connection
DecodeFrame ==
    /\ wire # <<>>
    /\ msg' = decodeFrame(wire)
    /\ wire' = <<>>
    /\ UNCHANGED <<reqId, option, sent, frames>>
    /\ UNCHANGED <<breakerVars, poolVars, rpcVars>>

NextCodec ==
    \/ \E sn \in Names, mn \in Names, a \in Names : Invoke(sn, mn, a)
    \/ \E rsp \in Responses : Send(rsp)
    \/ DecodeFrame

(***************************************************************************)
(*                     RPC SERVER AND CLIENT PROXY                         *)
(* One connection at a time: the listener accepts the next one when the    *)
(* goroutines of the previous one have nothing left to do. The peer of the *)
(* server is either the client of this package (Proxy.Call) or a peer that *)
(* writes bytes of its own.                                                *)
(***************************************************************************)

\* err.Error() as the value of a Msg field: the error texts, numbered
Texts == <<"", "no service found", "no service method found",
           "magic number error", "no compress", "no serializer",
           "no message type", "EOF", "unexpected EOF",
           "gzip: invalid checksum", "decode error",
           "rate: Wait(n=1) would exceed context deadline",
           "service error">>
Error(e) == (CHOOSE i \in 1..Len(Texts) : Texts[i] = e) - 1

\* &MsRpcResponse{}
ZeroResponse ==
    [type |-> "MsRpcResponse", RequestId |-> Value(0, 8), Code |-> 0,
     Msg |-> 0, CompressType |-> 0, SerializeType |-> 0,
     Data |-> [kind |-> "null", v |-> 0]]

\* rsp := &MsRpcResponse{}; rsp.Code = code; rsp.Msg = err.Error()
ErrorResponse(code, e) == [ZeroResponse EXCEPT !.Code = code, !.Msg = Error(e)]

\* a nil result
NoResult == [type |-> "nil"]

\* service, ok := s.serviceMap[serviceName]
ServiceFoundAlways(serviceName) == TRUE
ServiceFound(serviceName) == serviceName \in serviceMap

\* the methods of the registered service type; each takes one argument and
\* returns (value, error)
Methods == {1}

\* reflect.ValueOf(service).MethodByName(methodName): is it a method
MethodByName(methodName) == methodName \in Methods

\* what a service method can return: a value and nil, or a value and an error
MethodReturns ==
    [value : [kind : {"scalar", "object"}, v : Names],
     err : {"nil", "service error"}]

\* readHandle after decodeFrame has returned msg m (both branches): the
\* response it puts on rspChan, the method it calls, or its panic when it
\* calls method.IsNil() on the zero Value or method.Call with the wrong
\* number of arguments
Dispatch(m, ret) ==
    LET req == m.data
        rsp == [ZeroResponse EXCEPT !.RequestId = req.RequestId,
                                    !.SerializeType = m.header.SerializeType,
                                    !.CompressType = m.header.CompressType]
    IN
    IF m.header.MessageType # msgRequest
    THEN [out |-> "return", rsp |-> <<>>, called |-> <<>>]
    ELSE IF ~ ServiceFound(req.ServiceName)
    THEN [out |-> "return", called |-> <<>>,
          rsp |-> <<ErrorResponse(500, "no service found")>>]
    ELSE IF ~ MethodByName(req.MethodName) \/ Len(req.Args) # 1
    THEN [out |-> "panic", rsp |-> <<>>, called |-> <<>>]
    ELSE [out |-> "return",
          called |-> <<[service |-> req.ServiceName,
                        method |-> req.MethodName, ret |-> ret]>>,
          rsp |-> <<IF ret.err # "nil"
                    THEN [rsp EXCEPT !.Code = 500, !.Msg = Error(ret.err)]
                    ELSE [rsp EXCEPT !.Code = 200, !.Data = ret.value]>>]

\* the bytes MsTcpConn.Send writes for rsp
SendFrame(rsp) ==
    LET body == Compress(Serialize(rsp.SerializeType, SendPayload(rsp)))
    IN  HeaderBytes(msgResponse, rsp.CompressType, rsp.SerializeType,
                    rsp.RequestId, body) \o body

\* io.ReadFull has given up: the stream ended before the bytes were there
IsEOF(e) == e \in {"EOF", "unexpected EOF"}

\* the client's readHandle: the response it puts on Invoke's rspChan for
\* what decodeFrame returned. The ProtoBuff branch keeps only the JSON of
\* rsp.Data, unmarshalled into a new MsRpcResponse
ClientResponse(m) ==
    IF m.err # "nil" THEN ErrorResponse(500, m.err)
    ELSE IF m.header.SerializeType = ProtoBuff THEN ZeroResponse
    ELSE m.data

\* a request frame as a client writes it
RequestFrame(se, serviceName, methodName, arg) ==
    LET id == Value(1, 8)
        payload == [type |-> IF se = ProtoBuff THEN "Request" ELSE "MsRpcRequest",
                    RequestId |-> IF se = ProtoBuff THEN AddInt64(id) ELSE id,
                    ServiceName |-> serviceName, MethodName |-> methodName,
                    Args |-> <<arg>>]
        body == Compress(Serialize(se, payload))
    IN  HeaderBytes(msgRequest, Gzip, se, id, body) \o body

GoodFrames ==
    {RequestFrame(se, sn, mn, 1) : se \in {Gob, ProtoBuff}, sn \in Names, mn \in Names}

\* the frame f with one thing wrong: another magic, version, length, message
\* type, compression or serialization tag, a missing tail, a damaged body
Garble(f) ==
    {[f EXCEPT ![1] = 0], [f EXCEPT ![1] = 255], [f EXCEPT ![2] = 2],
     [f EXCEPT ![6] = HeaderLen - 1], [f EXCEPT ![3] = 255],
     [f EXCEPT ![7] = msgResponse], [f EXCEPT ![7] = msgPing],
     [f EXCEPT ![7] = msgPong],
     [f EXCEPT ![8] = Gzip + 1],
     [f EXCEPT ![9] = ProtoBuff + 1],
     [f EXCEPT ![9] = IF @ = Gob THEN ProtoBuff ELSE Gob],
     [f EXCEPT ![16] = 1],
     SubSeq(f, 1, Len(f) - 1), SubSeq(f, 1, HeaderLen), SubSeq(f, 1, 5),
     [f EXCEPT ![HeaderLen + 1] = 0],
     [f EXCEPT ![Len(f)] = (@ + 1) % 256]}

\* the bytes a peer can write: frames with up to two things wrong
RawFrames ==
    LET once1 == UNION {Garble(f) : f \in GoodFrames}
        twice == UNION {Garble(g) : g \in {h \in once1 : Len(h) > HeaderLen /\ h[1] # MagicNumber}}
    IN  GoodFrames \cup once1 \cup twice

IdleCall == [pc |-> "idle", i |-> 0, serviceName |-> 0, methodName |-> 0, arg |-> 0]

InitRpc ==
    /\ serviceMap = {1}
    /\ limiter \in {"nil", "set"}
    /\ retries \in 0..MaxRetries
    /\ call = IdleCall
    /\ conn = 0
    /\ attempts = <<>>
    /\ cres = [result |-> NoResult, err |-> "none"]
    /\ accepted = 0
    /\ inbuf = <<>> /\ peerClosed = FALSE
    /\ outbuf = <<>> /\ srvClosed = FALSE
    /\ rspChan = <<>>
    /\ rpc = "none" /\ wpc = "none"
    /\ err2 = "none"
    /\ smsg = [err |-> "none", read |-> 0]
    /\ nread = 0 /\ decodes = 0 /\ written = 0
    /\ invoked = <<>>

\* the goroutines of the latest connection have nothing left to do
Quiescent ==
    \/ accepted = 0
    \/ /\ rpc \in {"done", "panicked"}
       /\ wpc = "done" \/ rspChan = <<>>

\* MsTcpServer.Run: Accept returns a connection; the peer has written bytes
\* to it; readHandle and writeHandle are started on it
Accept(bytes, closed) ==
    /\ accepted' = accepted + 1
    /\ inbuf' = bytes /\ peerClosed' = closed
    /\ outbuf' = <<>> /\ srvClosed' = FALSE
    /\ rspChan' = <<>>
    /\ rpc' = "limiter" /\ wpc' = "select"
    /\ err2' = "none"
    /\ smsg' = [err |-> "none", read |-> 0]
    /\ nread' = 0 /\ decodes' = 0 /\ written' = 0
    /\ invoked' = <<>>

\* a peer connects, writes bytes and (closed) shuts its end down
RawConnect(bytes, closed) ==
    /\ accepted < MaxConns
    /\ Quiescent
    /\ Accept(bytes, closed)
    /\ UNCHANGED <<serviceMap, limiter, retries, call, conn, attempts, cres>>
    /\ UNCHANGED <<breakerVars, poolVars, codecVars>>

\* readHandle's test of the limiter's answer: err2 != nil
LimiterDeniedNever(e) == FALSE
LimiterDenied(e) == e # "nil"

\* where readHandle is after it has put its response on rspChan: it returns
ReaderAgain == "decode"
ReaderDone == "done"

\* readHandle up to the limiter: s.Limiter.WaitN(ctx, 1) panics on a nil
\* limiter (recovered: the connection is closed), grants, or gives up
ReadHandleLimiter ==
    /\ rpc = "limiter"
    /\ IF limiter = "nil"
       THEN /\ rpc' = "panicked"
            /\ srvClosed' = TRUE
            /\ UNCHANGED <<rspChan, err2>>
       ELSE /\ err2' \in {"nil", "rate: Wait(n=1) would exceed context deadline"}
            /\ IF LimiterDenied(err2')
               THEN /\ rspChan' = Append(rspChan, ErrorResponse(700, err2'))
                    /\ rpc' = ReaderDone
                    /\ UNCHANGED srvClosed
               ELSE /\ rpc' = "decode"
                    /\ UNCHANGED <<rspChan, srvClosed>>
    /\ UNCHANGED <<accepted, inbuf, peerClosed, outbuf, wpc, smsg, nread,
                   decodes, written, invoked>>
    /\ UNCHANGED <<serviceMap, limiter, retries, call, conn, attempts, cres>>
    /\ UNCHANGED <<breakerVars, poolVars, codecVars>>

\* readHandle from decodeFrame on: the read blocks until the bytes are there
\* or the peer has closed; a panic is recovered and the connection closed
ReadHandleDecode ==
    /\ rpc = "decode"
    /\ \E m \in {decodeFrame(inbuf)} :
       /\ IsEOF(m.err) => peerClosed
       /\ smsg' = m
       /\ nread' = nread + m.read
       /\ decodes' = decodes + 1
       /\ inbuf' = SubSeq(inbuf, m.read + 1, Len(inbuf))
       /\ IF m.err = "panic"
          THEN /\ rpc' = "panicked"
               /\ srvClosed' = TRUE
               /\ UNCHANGED <<rspChan, invoked>>
          ELSE IF m.err # "nil"
          THEN /\ rspChan' = Append(rspChan, ErrorResponse(500, m.err))
               /\ rpc' = ReaderDone
               /\ UNCHANGED <<srvClosed, invoked>>
          ELSE \E ret \in MethodReturns :
                 \E d \in {Dispatch(m, ret)} :
                 /\ invoked' = invoked \o d.called
                 /\ IF d.out = "panic"
                    THEN /\ rpc' = "panicked"
                         /\ srvClosed' = TRUE
                         /\ UNCHANGED rspChan
                    ELSE /\ rspChan' = rspChan \o d.rsp
                         /\ rpc' = ReaderDone
                         /\ UNCHANGED srvClosed
    /\ Len(rspChan') <= 1
    /\ UNCHANGED <<accepted, peerClosed, outbuf, err2, wpc, written>>
    /\ UNCHANGED <<serviceMap, limiter, retries, call, conn, attempts, cres>>
    /\ UNCHANGED <<breakerVars, poolVars, codecVars>>

\* writeHandle: receives the response, Sends it, closes the connection
WriteHandle ==
    /\ wpc = "select"
    /\ rspChan # <<>>
    /\ \E frame \in {SendFrame(Head(rspChan))} : outbuf' = outbuf \o frame
    /\ rspChan' = Tail(rspChan)
    /\ written' = written + 1
    /\ srvClosed' = TRUE
    /\ wpc' = "done"
    /\ UNCHANGED <<accepted, inbuf, peerClosed, rpc, err2, smsg, nread,
                   decodes, invoked>>
    /\ UNCHANGED <<serviceMap, limiter, retries, call, conn, attempts, cres>>
    /\ UNCHANGED <<breakerVars, poolVars, codecVars>>

\* Proxy.Call is called
CallStart(serviceName, methodName, arg) ==
    /\ call.pc = "idle"
    /\ accepted < MaxConns
    /\ Quiescent
    /\ call' = [pc |-> "connect", i |-> 0, serviceName |-> serviceName,
                methodName |-> methodName, arg |-> arg]
    /\ UNCHANGED <<serviceMap, limiter, retries, conn, attempts, cres, connVars>>
    /\ UNCHANGED <<breakerVars, poolVars, codecVars>>

\* Proxy.Call up to client.Connect(): the registry lookup fails (Connect
\* panics), the dial fails (Call returns the error), or the server accepts
Connect ==
    /\ call.pc = "connect"
    /\ \E out \in {"ok", "dial error", "panic"} :
         IF out = "ok"
         THEN /\ conn' = accepted + 1
              /\ Accept(<<>>, FALSE)
              /\ call' = [call EXCEPT !.pc = "loop"]
              /\ UNCHANGED cres
         ELSE /\ call' = [call EXCEPT !.pc = IF out = "panic" THEN "panic" ELSE "done"]
              /\ cres' = [result |-> NoResult, err |-> out]
              /\ UNCHANGED <<conn, connVars>>
    /\ UNCHANGED <<serviceMap, limiter, retries, attempts>>
    /\ UNCHANGED <<breakerVars, poolVars, codecVars>>

\* Proxy.Call's test of what Invoke returned: err != nil
InvokeFailed(res, err) == err # "nil"

\* Proxy.Call's test for the last attempt: i >= p.option.Retries-1
ExhaustedNever(i) == FALSE
Exhausted(i) == i >= retries - 1

\* the body of Proxy.Call's loop after Invoke has returned (res, err)
AfterInvoke(res, err) ==
    IF InvokeFailed(res, err)
    THEN IF Exhausted(call.i)
         THEN /\ call' = [call EXCEPT !.pc = "done"]
              /\ peerClosed' = TRUE
              /\ cres' = [result |-> NoResult, err |-> err]
         ELSE /\ call' = [call EXCEPT !.i = @ + 1, !.pc = "loop"]
              /\ UNCHANGED <<peerClosed, cres>>
    ELSE /\ call' = [call EXCEPT !.pc = "done"]
         /\ peerClosed' = TRUE
         /\ cres' = [result |-> res, err |-> "nil"]

\* one turn of Proxy.Call's loop: Invoke up to its two conn.Write calls. It
\* returns an error when there is no serializer or compressor for the
\* option's tag or when a Write fails (header: the first, body: the second)
CallInvoke ==
    /\ call.pc = "loop"
    /\ call.i < retries
    /\ LET id1 == AddInt64(reqId)
           id2 == AddInt64(id1)
           req == [type |-> "MsRpcRequest", RequestId |-> id1,
                   ServiceName |-> call.serviceName,
                   MethodName |-> call.methodName, Args |-> <<call.arg>>]
           payload == InvokePayload(req, id2)
       IN
       IF ~ loadSerializer(option.SerializeType)
       THEN /\ reqId' = id1
            /\ attempts' = Append(attempts, [conn |-> 0, res |-> NoResult, err |-> "no serializer"])
            /\ AfterInvoke(NoResult, "no serializer")
            /\ UNCHANGED inbuf
       ELSE IF ~ loadCompress(option.CompressType)
       THEN /\ reqId' = IF option.SerializeType = ProtoBuff THEN id2 ELSE id1
            /\ attempts' = Append(attempts, [conn |-> 0, res |-> NoResult, err |-> "no compress"])
            /\ AfterInvoke(NoResult, "no compress")
            /\ UNCHANGED inbuf
       ELSE /\ reqId' = IF option.SerializeType = ProtoBuff THEN id2 ELSE id1
            /\ \E body \in {Compress(Serialize(option.SerializeType, payload))} :
               \E headers \in {HeaderBytes(msgRequest, option.CompressType,
                                            option.SerializeType, id1, body)} :
               \E w \in {"ok", "header", "body"} :
                 IF w = "ok"
                 THEN /\ inbuf' = inbuf \o headers \o body
                      /\ attempts' = Append(attempts, [conn |-> conn, res |-> NoResult,
                                                       err |-> "pending"])
                      /\ call' = [call EXCEPT !.pc = "wait"]
                      /\ UNCHANGED <<peerClosed, cres>>
                 ELSE /\ inbuf' = IF w = "body" THEN inbuf \o headers ELSE inbuf
                      /\ attempts' = Append(attempts, [conn |-> conn, res |-> NoResult,
                                                       err |-> "write error"])
                      /\ AfterInvoke(NoResult, "write error")
    /\ UNCHANGED <<accepted, outbuf, srvClosed, rspChan, rpc, err2, wpc,
                   smsg, nread, decodes, written, invoked>>
    /\ UNCHANGED <<serviceMap, limiter, retries, conn>>
    /\ UNCHANGED <<option, wire, sent, msg, frames>>
    /\ UNCHANGED <<breakerVars, poolVars>>

\* Proxy.Call's loop is not entered or runs out: errors.New("retry time is 0")
CallNoAttempt ==
    /\ call.pc = "loop"
    /\ ~ (call.i < retries)
    /\ call' = [call EXCEPT !.pc = "done"]
    /\ cres' = [result |-> NoResult, err |-> "retry time is 0"]
    /\ UNCHANGED <<serviceMap, limiter, retries, conn, attempts, connVars>>
    /\ UNCHANGED <<breakerVars, poolVars, codecVars>>

\* Invoke from `go c.readHandle(rspChan)` on, and Proxy.Call's handling of
\* what it returns. readHandle's decodeFrame blocks until the bytes are
\* there or the server has closed; when it panics, readHandle recovers,
\* closes the connection and sends nothing, and Invoke stays at <-rspChan
InvokeReturn ==
    /\ call.pc = "wait"
    /\ \E m \in {decodeFrame(outbuf)} :
       /\ IsEOF(m.err) => srvClosed
       /\ outbuf' = SubSeq(outbuf, m.read + 1, Len(outbuf))
       /\ IF m.err = "panic"
          THEN /\ call' = [call EXCEPT !.pc = "hung"]
               /\ peerClosed' = TRUE
               /\ UNCHANGED <<attempts, cres>>
          ELSE IF m.err = "nil" /\ m.header.MessageType # msgResponse
          THEN UNCHANGED <<call, peerClosed, attempts, cres>>
          ELSE /\ attempts' = [attempts EXCEPT ![Len(attempts)].err = "nil",
                                               ![Len(attempts)].res = ClientResponse(m)]
               /\ AfterInvoke(ClientResponse(m), "nil")
    /\ UNCHANGED <<accepted, inbuf, srvClosed, rspChan, rpc, err2, wpc,
                   smsg, nread, decodes, written, invoked>>
    /\ UNCHANGED <<serviceMap, limiter, retries, conn>>
    /\ UNCHANGED <<breakerVars, poolVars, codecVars>>

\* the server and peers that write bytes of their own
NextServer ==
    \/ \E bytes \in RawFrames, closed \in BOOLEAN : RawConnect(bytes, closed)
    \/ ReadHandleLimiter
    \/ ReadHandleDecode
    \/ WriteHandle

\* the server and a Proxy.Call
NextRpc ==
    \/ ReadHandleLimiter
    \/ ReadHandleDecode
    \/ WriteHandle
    \/ \E sn \in Names, mn \in Names, a \in Names : CallStart(sn, mn, a)
    \/ Connect
    \/ CallInvoke
    \/ CallNoAttempt
    \/ InvokeReturn

(***************************************************************************)
(*                            SPECIFICATIONS                               *)
(***************************************************************************)

\* a breaker nobody calls
BreakerAtRest ==
    /\ maxRequests = 1 /\ interval = 0 /\ timeout = 1 /\ hasFallback = FALSE
    /\ now = 1
    /\ cb = [state |-> StateClosed, generation |-> 1,
             counts |-> ZeroCounts, expiry |-> ZeroTime]
    /\ executing = EmptyBag
    /\ result = "none"
    /\ calls = 0

\* a pool nobody uses
PoolAtRest ==
    /\ cap = 1 /\ expire = 1 /\ running = 0 /\ workers = <<>>
    /\ release = 0 /\ once = "fresh"
    /\ cache = [w \in WorkerIds |-> 0]
    /\ nalloc = 0
    /\ task = [w \in WorkerIds |-> <<>>]
    /\ idleFor = [w \in WorkerIds |-> 0]
    /\ released = [w \in WorkerIds |-> FALSE]
    /\ gWait = [w \in WorkerIds |-> 0]
    /\ gExec = [w \in WorkerIds |-> 0]
    /\ gPut = [w \in WorkerIds |-> 0]
    /\ submitting = EmptyBag
    /\ sres = "none" /\ submits = 0 /\ relReturns = 0
    /\ restarted = FALSE /\ sweeper = TRUE
    /\ panicHandler = FALSE /\ recovered = "none" /\ crashed = FALSE

\* a codec no frame goes through
CodecAtRest ==
    /\ reqId = Value(0, 8)
    /\ option = [SerializeType |-> Gob, CompressType |-> Gzip]
    /\ wire = <<>> /\ sent = NoFrame /\ msg = [err |-> "none"]
    /\ frames = 0

\* a server nobody connects to and a proxy nobody calls
RpcAtRest ==
    /\ InitRpc
    /\ limiter = "set"
    /\ retries = 0

\* the client of the RPC specification: its option may name a serializer
\* or a compressor that does not exist
InitClient ==
    /\ reqId = Value(0, 8)
    /\ option \in [SerializeType : {Gob, ProtoBuff, ProtoBuff + 1},
                   CompressType : {Gzip, Gzip + 1}]
    /\ wire = <<>> /\ sent = NoFrame /\ msg = [err |-> "none"]
    /\ frames = 0

InitBreakerSpec == InitBreaker /\ PoolAtRest /\ CodecAtRest /\ RpcAtRest
InitPoolSpec == InitPool /\ BreakerAtRest /\ CodecAtRest /\ RpcAtRest
InitCodecSpec == InitCodec /\ BreakerAtRest /\ PoolAtRest /\ RpcAtRest
InitRpcSpec == InitRpc /\ InitClient /\ BreakerAtRest /\ PoolAtRest
InitServerSpec ==
    InitRpc /\ retries = 0 /\ CodecAtRest /\ BreakerAtRest /\ PoolAtRest

SpecBreaker == InitBreakerSpec /\ [][NextBreaker]_vars

\* the same calls with the increment of Counts.Requests in two steps
SpecBreakerRace == InitBreakerSpec /\ [][NextBreakerRace]_vars

SpecPool == InitPoolSpec /\ [][NextPool]_vars

\* the pool from the state in which its first Worker has run a task, was
\* swept by expireWorker and has left its goroutine (so that the Worker
\* object is in workerCache twice), with or without a PanicHandler assigned
InitPoolReused ==
    /\ cap = MaxCap
    /\ expire = 1
    /\ running = 1
    /\ workers = <<>>
    /\ release = 0
    /\ once = "fresh"
    /\ cache = [w \in WorkerIds |-> IF w = 1 THEN 2 ELSE 0]
    /\ nalloc = 1
    /\ task = [w \in WorkerIds |-> <<>>]
    /\ idleFor = [w \in WorkerIds |-> 0]
    /\ released = [w \in WorkerIds |-> FALSE]
    /\ gWait = [w \in WorkerIds |-> 0]
    /\ gExec = [w \in WorkerIds |-> 0]
    /\ gPut = [w \in WorkerIds |-> 0]
    /\ submitting = EmptyBag
    /\ sres = "nil"
    /\ submits = 0
    /\ relReturns = 0
    /\ restarted = FALSE
    /\ sweeper = TRUE
    /\ panicHandler \in BOOLEAN
    /\ recovered = "none"
    /\ crashed = FALSE

InitPoolReusedSpec == InitPoolReused /\ BreakerAtRest /\ CodecAtRest /\ RpcAtRest

SpecPoolReused == InitPoolReusedSpec /\ [][NextPool]_vars

\* the steps the pool's own goroutines and the callers inside Submit or
\* Release take by themselves once they can (the scheduler runs every
\* runnable goroutine, a task comes to an end, the clock and the ticker go
\* on); whether Submit, Release or Restart is called at all is up to the user
GoroutineStep ==
    \/ \E r \in BagToSet(submitting) : GetWorker(r)
    \/ \E r \in BagToSet(submitting) : Spawn(r)
    \/ \E r \in BagToSet(submitting) : WaitPark(r)
    \/ \E r \in BagToSet(submitting) : Woken(r)
    \/ \E r \in BagToSet(submitting) : SendTask(r)
    \/ \E r \in BagToSet(submitting) : IncRunning(r)
    \/ \E w \in WorkerIds : Receive(w)
    \/ \E w \in WorkerIds : TaskDone(w)
    \/ \E w \in WorkerIds : PutWorker(w)
    \/ \E w \in WorkerIds : TaskPanic(w)
    \/ ExpireTick
    \/ ReleaseSignal
    \/ PoolTick

SpecPoolLive == SpecPool /\ WF_vars(GoroutineStep)

SpecCodec == InitCodecSpec /\ [][NextCodec]_vars

SpecServer == InitServerSpec /\ [][NextServer]_vars

\* response frames as MsTcpConn.Send writes them, which a peer can send to
\* the server as well
ResponseFrames ==
    {SendFrame([ZeroResponse EXCEPT !.RequestId = Value(1, 8), !.Code = 200,
                                    !.SerializeType = se,
                                    !.Data = [kind |-> "object", v |-> 1]]) :
        se \in {Gob, ProtoBuff}}

\* the server and peers that write request frames, damaged frames or
\* response frames
NextServerAny ==
    \/ NextServer
    \/ \E bytes \in ResponseFrames, closed \in BOOLEAN : RawConnect(bytes, closed)

\* the steps the goroutines of the server take by themselves once they can
ServerStep == ReadHandleLimiter \/ ReadHandleDecode \/ WriteHandle

\* that server with weak fairness of the goroutines' steps
SpecServerLive == InitServerSpec /\ [][NextServerAny]_vars /\ WF_vars(ServerStep)

SpecRpc == InitRpcSpec /\ [][NextRpc]_vars

\* every goroutine that can take a step is scheduled
SpecRpcLive == SpecRpc /\ WF_vars(NextRpc)

(***************************************************************************)
(* Claims about the circuit breaker, checked under SpecBreaker.            *)
(***************************************************************************)

\* the Execute call r of the bag takes a step
Steps(r) == CopiesIn(r, executing') < CopiesIn(r, executing)

\* the Execute call r runs afterRequest in this step
Completes(r) == r.pc = "after" /\ Steps(r)

\* some Execute call runs beforeRequest in this step
Consults == calls' = calls + 1

\* r's snapshot is the breaker's generation and no Closed-state interval
\* rollover is due, so afterRequest accounts r's outcome
Fresh(r) ==
    /\ r.before = cb.generation
    /\ ~ (cb.state = StateClosed /\ cb.expiry # ZeroTime /\ cb.expiry < now)

\* C2: with the default trip predicate a Closed breaker never holds more
\* than 5 consecutive failures; a failed call that is accounted in Closed
\* opens the breaker exactly when it is the 6th consecutive failure, and
\* otherwise adds one to ConsecutiveFailures; an accounted success resets
\* ConsecutiveFailures to 0 and leaves the breaker Closed; the breaker
\* leaves Closed only for Open, and only from 5 consecutive failures.
C2_TripsOnSixthFailure ==
    [][ /\ (cb'.state = StateClosed => cb'.counts.ConsecutiveFailures <= 5)
        /\ (cb.state = StateClosed /\ cb'.state # StateClosed =>
               cb'.state = StateOpen /\ cb.counts.ConsecutiveFailures = 5)
        /\ \A r \in BagToSet(executing) :
             (Completes(r) /\ Fresh(r) /\ cb.state = StateClosed) =>
                IF r.success
                THEN /\ cb'.state = StateClosed
                     /\ cb'.counts.ConsecutiveFailures = 0
                ELSE IF cb.counts.ConsecutiveFailures + 1 > 5
                THEN cb'.state = StateOpen
                ELSE /\ cb'.state = StateClosed
                     /\ cb'.counts.ConsecutiveFailures =
                            cb.counts.ConsecutiveFailures + 1
      ]_vars

\* C2 witness: the first generation of a breaker without interval was left
\* for Open after seven completed calls, one of them not among the six
\* consecutive failures.
C2_Witness ==
    /\ cb.state = StateOpen /\ cb.generation = 2 /\ interval = 0
    /\ calls = 7 /\ cb.counts = ZeroCounts
    /\ executing = EmptyBag
    /\ result = "err"

\* C3: an Execute that consults an Open breaker whose expiry has not passed
\* returns the rejection (the fallback's result when a fallback is set, the
\* open-circuit error otherwise), does not go on to req, and leaves state,
\* generation, counts and expiry as they were.
C3_OpenRejectsWithoutCall ==
    [][ (Consults /\ cb.state = StateOpen /\ ~ (cb.expiry < now)) =>
           /\ cb' = cb
           /\ executing' = executing
           /\ result' = IF hasFallback THEN "fallback" ELSE "errOpen"
      ]_vars

\* C3 witness: a caller was turned away by an Open breaker.
C3_Witness ==
    /\ cb.state = StateOpen
    /\ result \in {"fallback", "errOpen"}

\* C4: the breaker leaves Open only for HalfOpen, only in a step in which an
\* Execute consults it, and only once the clock is past the expiry; and
\* every such consultation past the expiry does move it to HalfOpen, with a
\* new generation.
C4_OpenToHalfOpenAtExpiry ==
    [][ /\ (cb.state = StateOpen /\ cb'.state # StateOpen) =>
               /\ cb'.state = StateHalfOpen
               /\ cb.expiry < now
               /\ (Consults \/ \E r \in BagToSet(executing) : Completes(r))
        /\ (cb.state = StateOpen /\ cb.expiry < now
              /\ (Consults \/ \E r \in BagToSet(executing) : Completes(r))) =>
               /\ cb'.state = StateHalfOpen
               /\ cb'.generation = cb.generation + 1
      ]_vars

\* C4 witness: the breaker is HalfOpen (it has been Open and its timeout
\* has elapsed).
C4_Witness == cb.state = StateHalfOpen /\ cb.generation = 3

\* C5: a successful call accounted while the breaker is HalfOpen counts as
\* one more consecutive success, and closes the breaker when that makes
\* ConsecutiveSuccesses exceed maxRequests.
C5_HalfOpenSuccessesClose ==
    [][ \A r \in BagToSet(executing) :
          (Completes(r) /\ r.success /\ cb.state = StateHalfOpen
             /\ r.before = cb.generation) =>
             IF cb.counts.ConsecutiveSuccesses + 1 > maxRequests
             THEN cb'.state = StateClosed
             ELSE /\ cb'.state = StateHalfOpen
                  /\ cb'.counts.ConsecutiveSuccesses =
                         cb.counts.ConsecutiveSuccesses + 1
      ]_vars

\* C6: a failed call accounted while the breaker is HalfOpen opens the
\* breaker, with the next generation and an expiry of now + timeout.
C6_HalfOpenFailureOpens ==
    [][ \A r \in BagToSet(executing) :
          (Completes(r) /\ ~ r.success /\ cb.state = StateHalfOpen
             /\ r.before = cb.generation) =>
             /\ cb'.state = StateOpen
             /\ cb'.generation = cb.generation + 1
             /\ cb'.expiry = now + timeout
      ]_vars

\* C7: a call whose snapshot is no longer the breaker's generation changes
\* neither Counts nor the state in the steps it takes after req() returned
\* (steps that themselves roll the generation over on the clock set aside).
C7_StaleCallLeavesCounts ==
    [][ \A r \in BagToSet(executing) :
          (r.pc \in {"onreq", "after"} /\ Steps(r)
             /\ r.before # cb.generation
             /\ cb'.generation = cb.generation) =>
             /\ cb'.counts = cb.counts
             /\ cb'.state = cb.state
      ]_vars

(***************************************************************************)
(* Claims about the worker pool, checked under SpecPool.                   *)
(***************************************************************************)

\* a Submit call is made in this step
SubmitCalled == submits' = submits + 1

\* a Release call returns in this step
ReleaseReturns == relReturns' = relReturns + 1

\* what Release, Submit and the workers share: the fields of the Pool, the
\* Worker objects and their goroutines
poolState == <<cap, running, workers, expire, release, once, cache,
               nalloc, task, idleFor, released, gWait, gExec, gPut>>

\* C1: the running counter never exceeds the capacity, and Free() is never
\* negative.
C1_RunningWithinCap == Running <= cap /\ Free >= 0

\* C8: a Submit called after a Release call has returned, with no Restart
\* since a Release returned, returns the pool-closed error: the caller does
\* not go on to GetWorker, holds no worker, and the idle list, the task
\* channels, the running counter, the worker goroutines and the worker
\* cache are as they were.
C8_SubmitAfterReleaseRefused ==
    [][ (SubmitCalled /\ relReturns > 0 /\ ~ restarted) =>
           /\ sres' = "ErrorHasClosed"
           /\ submitting' = submitting
           /\ poolState' = poolState
      ]_vars

\* C8 witness: a Submit was refused after Release returned, and Restart
\* has not followed.
C8_Witness ==
    /\ relReturns > 0 /\ ~ restarted
    /\ submits > 0 /\ sres = "ErrorHasClosed"

\* C9: a Release call that returns after another Release call has returned
\* changes nothing of the pool (idle list, release signal, running counter
\* and the rest); and the one call that runs the body of once.Do always
\* finds the release channel empty, so its send does not block.
C9_ReleaseIdempotent ==
    [][ /\ (ReleaseReturns /\ relReturns > 0) =>
               /\ poolState' = poolState
               /\ submitting' = submitting
        /\ (once' = "running" => release' = 0)
      ]_vars

\* C9 witness: two Release calls have returned, and the signal of the first
\* is still in the channel.
C9_Witness == relReturns >= 2 /\ release = 1 /\ once = "done"

(***************************************************************************)
(* Claims about the frame codec, checked under SpecCodec.                  *)
(***************************************************************************)

\* decodeFrame consumes the frame on the connection in this step
Decodes == wire # <<>> /\ wire' = <<>>

\* C10: decodeFrame of a frame written by Invoke or Send returns no error,
\* and a message whose header fields (magic, version, FullLength, message
\* type, compression tag, serialization tag, request id) and payload are
\* the ones the encoder wrote.
C10_FrameRoundTrip ==
    [][ Decodes =>
           /\ msg'.err = "nil"
           /\ msg'.header = sent.header
           /\ msg'.data = sent.data
      ]_vars

(***************************************************************************)
(* Claims about the server's handling of one connection, checked under     *)
(* SpecServer.                                                             *)
(***************************************************************************)

\* the server's readHandle calls decodeFrame in this step
ServerDecodes == decodes' = decodes + 1

\* C11: for every header of 17 bytes whose byte 0 is not the magic number,
\* whatever the other bytes are, decodeFrame returns "magic number error"
\* and has read the 17 header bytes and no byte of the body.
C11_BadMagicRejected ==
    [][ (ServerDecodes /\ Len(inbuf) >= HeaderLen /\ inbuf[1] # MagicNumber) =>
           /\ smsg'.err = "magic number error"
           /\ nread' = nread + HeaderLen
           /\ inbuf' = SubSeq(inbuf, HeaderLen + 1, Len(inbuf)) ]_vars

\* a frame with a wrong magic byte was refused and its body is still unread
C11_Witness ==
    /\ smsg.err = "magic number error"
    /\ nread = HeaderLen
    /\ inbuf # <<>>

(***************************************************************************)
(* A claim about a client's request on its way through the server,         *)
(* checked under SpecRpc.                                                  *)
(***************************************************************************)

\* the server's writeHandle writes a response frame in this step
ServerWrites == written' = written + 1

\* C12: when the server has called the method a request names, it sends one
\* response that carries the request's id and, if the method returned
\* (value, nil), code 200 and the value as Data; if the method returned an
\* error, code 500 and the error's text as Msg.
C12_MethodResultReturned ==
    [][ (ServerWrites /\ invoked # <<>>) =>
           LET ret == invoked[1].ret
               frame == decodeFrame(outbuf')
           IN  /\ written' = 1
               /\ Len(invoked) = 1
               /\ frame.err = "nil"
               /\ frame.data.RequestId = smsg.data.RequestId
               /\ ret.err = "nil" =>
                      /\ frame.data.Code = 200
                      /\ frame.data.Data = ret.value
               /\ ret.err # "nil" =>
                      /\ frame.data.Code = 500
                      /\ frame.data.Msg = Error(ret.err) ]_vars

(***************************************************************************)
(* Claims about the server's dispatch and its two goroutines, checked      *)
(* under SpecServer.                                                       *)
(***************************************************************************)

\* decodeFrame has returned the request m to readHandle
IsRequest(m) == m.err = "nil" /\ m.header.MessageType = msgRequest

\* the request m names a service that is not registered
UnknownService(m) == IsRequest(m) /\ m.data.ServiceName \notin serviceMap

\* C13: a request whose serviceName is not in the service table gets a
\* response with code 500 and the message "no service found", and no
\* service method is invoked for it.
C13_UnknownServiceRefused ==
    [][ /\ (ServerDecodes /\ UnknownService(smsg')) =>
               /\ Len(rspChan') = 1
               /\ invoked' = <<>>
        /\ (ServerWrites /\ UnknownService(smsg)) =>
               LET frame == decodeFrame(outbuf')
               IN  /\ frame.err = "nil"
                   /\ frame.data.Code = 500
                   /\ frame.data.Msg = Error("no service found")
                   /\ invoked' = <<>> ]_vars

\* the refusal of a request for an unregistered service has been written
C13_Witness ==
    /\ UnknownService(smsg)
    /\ written = 1
    /\ decodeFrame(outbuf).err = "nil"
    /\ decodeFrame(outbuf).data.Code = 500
    /\ invoked = <<>>

\* the request m names a registered service and a method it does not have
UnknownMethod(m) ==
    /\ IsRequest(m)
    /\ m.data.ServiceName \in serviceMap
    /\ m.data.MethodName \notin Methods

\* C14: a request that names a registered service and a method the service
\* does not have gets a response with code 500 and the message "no service
\* method found" on its connection; the connection is not dropped without
\* a response.
C14_UnknownMethodRefused ==
    [][ (ServerDecodes /\ UnknownMethod(smsg')) =>
           /\ Len(rspChan') = 1
           /\ Head(rspChan').Code = 500
           /\ Head(rspChan').Msg = Error("no service method found")
           /\ ~ srvClosed' ]_vars

\* the limiter has refused the connection
Denied == err2 \notin {"none", "nil"}

\* C15: when the limiter grants no token within the limiter timeout, the
\* server sends a response with code 700 and closes the connection; it does
\* not decode the request frame and invokes no service method.
C15_LimiterDenialAnswered ==
    [][ /\ Denied' =>
               /\ decodes' = 0
               /\ nread' = 0
               /\ invoked' = <<>>
        /\ (Denied' /\ ~ Denied) => Len(rspChan') = 1
        /\ (ServerWrites /\ Denied) =>
               /\ decodeFrame(outbuf').err = "nil"
               /\ decodeFrame(outbuf').data.Code = 700
               /\ srvClosed' ]_vars

\* a refused connection has its 700 response and is closed, the request
\* bytes unread
C15_Witness ==
    /\ Denied
    /\ written = 1
    /\ srvClosed
    /\ inbuf \in GoodFrames
    /\ decodeFrame(outbuf).data.Code = 700

\* C16: on a connection the server writes at most one response frame, and
\* only when the reader is through with the connection's one request; it
\* closes the connection after writing and never reads a second request.
C16_OneRequestOneResponse ==
    [][ /\ written' <= 1
        /\ decodes' <= 1
        /\ ServerWrites => rpc = "done" /\ rpc' = "done" /\ srvClosed'
        /\ (written = 1 /\ accepted' = accepted) => UNCHANGED <<outbuf, nread>> ]_vars

\* a request was read, answered, and the connection closed
C16_Witness ==
    /\ decodes = 1
    /\ written = 1
    /\ srvClosed
    /\ invoked # <<>>

\* the bytes b make decodeFrame fail for a wrong magic byte, an unknown
\* compression, serialization or message type tag, a length below the
\* header's, or a body shorter than the length says
BadFrame(b) ==
    /\ Len(b) >= HeaderLen
    /\ \/ b[1] # MagicNumber
       \/ b[7] \notin {msgRequest, msgResponse}
       \/ b[8] # Gzip
       \/ b[9] \notin {Gob, ProtoBuff}
       \/ Int32(Uint32(SubSeq(b, 3, 6))) < HeaderLen
       \/ Len(b) < Int32(Uint32(SubSeq(b, 3, 6)))

\* C17: every frame-level decode failure on the server (wrong magic byte,
\* unknown compression or serialization tag, unknown message type, length
\* smaller than the header, truncated body) puts a code-500 response on
\* the connection's response channel; none ends the connection without one.
C17_DecodeFailureAnswered ==
    [][ (ServerDecodes /\ BadFrame(inbuf)) =>
           /\ smsg'.err # "nil"
           /\ Len(rspChan') = 1
           /\ Head(rspChan').Code = 500
           /\ ~ srvClosed' ]_vars

(***************************************************************************)
(* Claims about Proxy.Call, checked under SpecRpc (C18: SpecRpcLive).      *)
(***************************************************************************)

\* Proxy.Call returns in this step
CallReturns == call.pc # "done" /\ call'.pc = "done"

\* C18: Proxy.Call makes at most Retries Invoke attempts; it returns the
\* result of the first attempt that returns no error, and after Retries
\* failed attempts the error of the last one; and it always terminates.
C18_BoundedRetries ==
    /\ [][ /\ Len(attempts') <= retries
           /\ (CallReturns /\ attempts' # <<>>) =>
                  LET n == Len(attempts')
                      last == attempts'[n]
                  IN  /\ \A j \in 1..(n - 1) : attempts'[j].err # "nil"
                      /\ IF last.err = "nil"
                         THEN cres' = [result |-> last.res, err |-> "nil"]
                         ELSE /\ n = retries
                              /\ cres' = [result |-> NoResult, err |-> last.err]
         ]_vars
    /\ (call.pc = "connect") ~> (call.pc \in {"done", "panic"})

\* every one of the Retries attempts failed and Call returned the last error
C18_Witness ==
    /\ call.pc = "done"
    /\ retries = MaxRetries
    /\ Len(attempts) = retries
    /\ \A j \in 1..retries : attempts[j].err = "write error"
    /\ cres.err = "write error"

\* C19: every attempt of Proxy.Call runs on a fresh connection: no two
\* Invoke attempts write to the same connection.
C19_FreshConnectionPerAttempt ==
    \A j, k \in DOMAIN attempts :
        (j < k /\ attempts[j].conn # 0 /\ attempts[k].conn # 0) =>
            attempts[j].conn # attempts[k].conn

\* Invoke's reader has decoded a response frame with an error code
ErrorCodeArrives ==
    /\ call.pc = "wait"
    /\ call'.pc # "wait"
    /\ decodeFrame(outbuf).err = "nil"
    /\ decodeFrame(outbuf).header.MessageType = msgResponse
    /\ decodeFrame(outbuf).data.Code \in {500, 700}

\* C20: when the reply is a decoded response with an application-level
\* error code (500 or 700), Proxy.Call does not retry: it returns after that
\* one Invoke attempt, with a nil error and a response that carries the
\* code that arrived.
C20_NoRetryOnErrorCode ==
    [][ ErrorCodeArrives =>
           /\ call'.pc = "done"
           /\ Len(attempts') = Len(attempts)
           /\ cres'.err = "nil"
           /\ cres'.result.Code = decodeFrame(outbuf).data.Code ]_vars

(***************************************************************************)
(* More claims about the frame decoder, checked under SpecServer and       *)
(* SpecCodec.                                                              *)
(***************************************************************************)

\* C23: a frame whose version byte (header byte 1) is not the protocol
\* version is refused by decodeFrame with an error, and no method is
\* dispatched for it.
C23_BadVersionRejected ==
    [][ (ServerDecodes /\ Len(inbuf) >= HeaderLen
           /\ inbuf[1] = MagicNumber /\ inbuf[2] # Version) =>
           /\ smsg'.err # "nil"
           /\ invoked' = invoked ]_vars

\* the int64 that the eight bytes b hold in big-endian order
BigEndianInt64(b) == Reverse(b)

\* C30: the request id in the header decodeFrame returns is the 64-bit
\* big-endian value of header bytes 9..16 of the frame it has read.
C30_RequestIdDecoded ==
    [][ (Decodes /\ msg'.err = "nil") =>
           msg'.header.RequestId
              = BigEndianInt64(SubSeq(wire, HeaderLen - 7, HeaderLen)) ]_vars

(***************************************************************************)
(* More claims about the circuit breaker, checked under SpecBreaker.       *)
(***************************************************************************)

\* the expiry a new generation gets in the state the breaker is in
ExpiryOfState(s) ==
    CASE s = StateClosed -> IF interval = 0 THEN ZeroTime ELSE now + interval
      [] s = StateOpen -> now + timeout
      [] s = StateHalfOpen -> ZeroTime

C26_HalfOpenTooManyRejected ==
    [][ (Consults /\ cb.state = StateHalfOpen
           /\ cb.counts.Requests > maxRequests) =>
           /\ result' = IF hasFallback THEN "fallback" ELSE "errTooMany"
           /\ executing' = executing
      ]_vars

(***************************************************************************)
(* A claim about concurrent Execute calls, checked under SpecBreakerRace.  *)
(***************************************************************************)

\* the Execute call r finishes its increment of Counts.Requests
CountsRequest(r) == r.pc = "store" /\ Steps(r)

\* C24: the accounting of concurrent Execute calls is atomic: the
\* increment of Counts.Requests by a call adds one to the value the counter
\* has when the increment finishes (no update is lost), and the call counts
\* in the generation it took its snapshot in (not in Counts that another
\* call has reset since).
C24_ExecuteAtomic ==
    [][ \A r \in BagToSet(executing) :
          CountsRequest(r) =>
             /\ cb'.counts.Requests = cb.counts.Requests + 1
             /\ r.before = cb.generation ]_vars

(***************************************************************************)
(* Claims about the worker pool, checked under SpecPool and, where the     *)
(* case needs a Worker object that is reused, under SpecPoolReused.        *)
(***************************************************************************)

\* C21: a panic raised by a submitted task, or while the server dispatches
\* a request, is recovered in the goroutine that raised it: the pool calls
\* its PanicHandler when one is set and logs the panic otherwise, only the
\* raising goroutine ends (every other worker goroutine stays where it is),
\* on the server only the connection's reader ends, and the process lives on.
C21_PanicRecovered ==
    [][ /\ \A w \in WorkerIds :
             TaskPanic(w) =>
                /\ ~ crashed'
                /\ recovered' = IF panicHandler THEN "PanicHandler" ELSE "logged"
                /\ gExec' = [gExec EXCEPT ![w] = @ - 1]
                /\ gWait' = gWait /\ gPut' = gPut
        /\ (rpc # "panicked" /\ rpc' = "panicked") =>
                /\ ~ crashed'
                /\ srvClosed'
                /\ wpc' = wpc /\ accepted' = accepted ]_vars

\* the number of Submit calls that hold Worker w: GetWorker has handed it
\* over and the call has not yet passed its task to it
Holders(w) ==
    LET held == {r \in BagToSet(submitting) : r.pc = "send" /\ r.holding = w}
        RECURSIVE Sum(_)
        Sum(rs) == IF rs = {} THEN 0
                   ELSE LET r == CHOOSE x \in rs : TRUE
                        IN  CopiesIn(r, submitting) + Sum(rs \ {r})
    IN  Sum(held)

\* C27: in every reachable state of the pool no Worker in the idle list is
\* executing a task, no Worker object is in the idle list twice, and a
\* Worker that GetWorker has handed over is held by one Submit call only and
\* is not in the idle list while it is held.
C27_IdleWorkersExclusive ==
    /\ \A i \in 1..Len(workers) : gExec[workers[i]] = 0
    /\ \A i, j \in 1..Len(workers) : workers[i] = workers[j] => i = j
    /\ \A w \in WorkerIds :
          /\ Holders(w) <= 1
          /\ Holders(w) = 1 => \A i \in 1..Len(workers) : workers[i] # w

\* the idle list an expiry sweep leaves when it runs in the current state,
\* and whether it can run through
SweepLeaves == SubSeq(workers, ExpiredPrefix(workers) + 1, Len(workers))
SweepRuns ==
    /\ sweeper /\ ~ IsClosed /\ ~ crashed
    /\ ~ SweepBlocks(task, SubSeq(workers, 1, ExpiredPrefix(workers)))

\* Worker w has been idle for longer than p.expire
Expired(w) == idleFor[w] > expire

\* the nil sentinels at the tail of a task channel
RECURSIVE Nils(_)
Nils(ch) == IF ch = <<>> \/ ch[Len(ch)] # "nil" THEN 0
            ELSE 1 + Nils(SubSeq(ch, 1, Len(ch) - 1))

\* C29: an expiry sweep, in whatever state it runs, leaves no Worker in the
\* idle list that has been idle for longer than the expiry; a sweep step
\* sends every Worker it removes one nil sentinel and no other Worker any,
\* and leaves the Workers that have not expired in the idle list in the
\* order they had.
C29_SweepRemovesExpired ==
    /\ [](SweepRuns =>
            \A i \in 1..Len(SweepLeaves) : ~ Expired(SweepLeaves[i]))
    /\ [][ (ExpireTick /\ ~ IsClosed) =>
             /\ workers' = SelectSeq(workers, LAMBDA w : ~ Expired(w))
             /\ \A w \in WorkerIds :
                  Nils(task'[w]) - Nils(task[w]) =
                     IF \E i \in 1..Len(workers) : workers[i] = w /\ Expired(w)
                     THEN 1 ELSE 0 ]_vars

(***************************************************************************)
(* Claims about the progress of Submit, checked under SpecPoolLive.        *)
(***************************************************************************)

\* a Submit call is parked in p.cond.Wait; a call is on its way into or out
\* of the wait; a call is at the head of GetWorker
Parked == BagIn(At("parked", 0), submitting)
Unserved == \E r \in BagToSet(submitting) : r.pc \in {"towait", "parked", "woken"}
Competing == BagIn(At("get", 0), submitting)

\* the only call inside Submit is parked although the idle list of the pool
\* (which nobody has released) holds a Worker
LeftParked ==
    Parked /\ BagCardinality(submitting) = 1 /\ workers # <<>> /\ once = "fresh"

\* C28: a Submit call that went to wait for a worker is handed one once
\* PutWorker has returned one: it does not stay parked on the condition
\* variable while the idle list is non-empty, unless another call competes
\* for the worker (or the pool is released).
C28_ParkedCallerServed ==
    LeftParked ~> (~ Unserved \/ Competing \/ once # "fresh")

\* a Submit call has not yet handed its task to a worker
WaitsForWorker ==
    \E r \in BagToSet(submitting) :
       r.pc \in {"get", "spawn", "towait", "parked", "woken", "send"}

\* C22: after a task has panicked (and the panic was recovered) the pool
\* keeps serving: every Submit call that waits for a worker, parked or
\* started later, hands its task to a worker in the end, unless the pool is
\* released meanwhile.
C22_ServesAfterPanic ==
    (recovered # "none" /\ WaitsForWorker) ~> (~ WaitsForWorker \/ once # "fresh")

(***************************************************************************)
(* A further claim about the circuit breaker, checked under SpecBreaker.   *)
(***************************************************************************)

\* C32: whatever the Execute calls, their outcomes and the clock do, no
\* Execute ends in the "unhandled default case" panic of currentState,
\* OnSuccess or OnFail: every call returns normally.
C32_ExecuteNeverPanics == result # "panic"

(***************************************************************************)
(* Further claims about the worker pool.                                   *)
(***************************************************************************)

\* the worker goroutines that are alive: at the receive, executing a task or
\* inside PutWorker
RECURSIVE Goroutines(_)
Goroutines(ws) ==
    IF ws = {} THEN 0
    ELSE LET w == CHOOSE x \in ws : TRUE
         IN  gWait[w] + gExec[w] + gPut[w] + Goroutines(ws \ {w})

\* no Submit call is in progress and no task is executing
QuiescentPool ==
    /\ submitting = EmptyBag
    /\ \A w \in WorkerIds : gExec[w] = 0 /\ gPut[w] = 0

\* C33: in a quiescent state of the pool Running() is the number of live
\* worker goroutines; with every task completed and no idle worker left
\* (all expired), Running() is 0 and Free() is the capacity.
C33_RunningCountsGoroutines ==
    QuiescentPool =>
       /\ Running = Goroutines(WorkerIds)
       /\ (workers = <<>> /\ Goroutines(WorkerIds) = 0) =>
             (Running = 0 /\ Free = cap)

\* the number of Submit calls at one of the positions pcs
CallsAt(pcs) ==
    LET RECURSIVE Sum(_)
        Sum(rs) == IF rs = {} THEN 0
                   ELSE LET r == CHOOSE x \in rs : TRUE
                        IN  CopiesIn(r, submitting) + Sum(rs \ {r})
    IN  Sum({r \in BagToSet(submitting) : r.pc \in pcs})

\* the tasks that are executing (up to the return of their worker through
\* PutWorker) or sit in a task channel, and the calls that have been granted
\* a worker for their task
RECURSIVE TasksOn(_)
TasksOn(ws) ==
    IF ws = {} THEN 0
    ELSE LET w == CHOOSE x \in ws : TRUE
         IN  gExec[w] + gPut[w] + Len(SelectSeq(task[w], LAMBDA f : f = "task"))
               + TasksOn(ws \ {w})
TasksInHand == TasksOn(WorkerIds) + CallsAt({"spawn", "send"})

\* the call r leaves GetWorker for waitIdleWorker
GoesToWait(r) ==
    /\ r.pc = "get" /\ GetWorker(r)
    /\ CopiesIn(At("towait", 0), submitting') > CopiesIn(At("towait", 0), submitting)

\* C34: a pool of capacity cap lets cap tasks execute at the same time: a
\* Submit that enters GetWorker while fewer than cap tasks are in hand is
\* not sent to wait on the condition variable.
C34_CapacityTasksRun ==
    [][ \A r \in BagToSet(submitting) :
          (GoesToWait(r) /\ once = "fresh") => TasksInHand >= cap ]_vars

\* C35: a pool of capacity cap never has more than cap worker goroutines
\* alive, however concurrent Submit calls interleave.
C35_GoroutinesWithinCap == Goroutines(WorkerIds) <= cap

\* C36: when a Release call returns the pool is closed (IsClosed() is true,
\* so that Submit returns the pool-closed error), also when the pool had
\* been released and restarted before; and only Restart opens it again.
C36_ReleaseCloses ==
    [][ /\ ReleaseReturns => IsClosed'
        /\ (IsClosed /\ ~ IsClosed') => Restart ]_vars

(***************************************************************************)
(* A further claim about the frame codec, checked under SpecCodec.         *)
(***************************************************************************)

\* Invoke writes a request frame in this step
WritesRequest ==
    /\ frames' = frames + 1
    /\ sent'.header.MessageType = msgRequest

\* C37: in every request frame Invoke writes, the request id of the header
\* is the request id inside the serialized request, with the Gob and with
\* the ProtoBuff serializer.
C37_HeaderIdIsPayloadId ==
    [][ WritesRequest => sent'.header.RequestId = sent'.data.RequestId ]_vars

(***************************************************************************)
(* Further claims about the RPC server, checked under SpecServer.          *)
(***************************************************************************)

\* C31: every response readHandle hands to the writer in reply to a request
\* it has decoded carries the RequestId of that request, the error
\* responses (no service found, no service method found, the method
\* returned an error) included.
C31_ResponseCarriesRequestId ==
    [][ (ServerDecodes /\ IsRequest(smsg') /\ Len(rspChan') > Len(rspChan)) =>
           rspChan'[Len(rspChan')].RequestId = smsg'.data.RequestId ]_vars

(***************************************************************************)
(* A further claim about the client proxy, checked under SpecRpc.          *)
(***************************************************************************)

\* C38: a Proxy.Call that has connected closes the client's connection
\* before it returns, on every path: success at the first attempt or after
\* retries, retries exhausted, and Retries of 0.
C38_CallClosesConnection ==
    [][ (CallReturns /\ call.pc \in {"loop", "wait"}) => peerClosed' ]_vars

(***************************************************************************)
(* A claim about the end of a server connection, checked under            *)
(* SpecServerLive.                                                         *)
(***************************************************************************)

\* readHandle has decoded a complete well-formed frame from the connection
FrameArrived == decodes > 0 /\ smsg.err = "nil"

\* the server has closed the connection and both its goroutines have ended
ConnectionOver ==
    /\ srvClosed
    /\ rpc \in {"done", "panicked"}
    /\ wpc = "done"

\* C39: a connection on which the peer has sent a complete well-formed
\* frame, whatever its message type, is closed by the server in the end, and
\* its readHandle and writeHandle goroutines both end.
C39_ConnectionEnds == FrameArrived ~> ConnectionOver

====
